---- MODULE Spec2Model ----
(***************************************************************************)
(* ClovaLink file storage core: the files_metadata catalog, the object     *)
(* backend, the access decision (can_access_file) and the request handlers *)
(* of backend/crates/api/src/handlers.rs, as a state machine.              *)
(*                                                                         *)
(* Every `.await` on the catalog or on the backend is a point where other  *)
(* requests run, so upload_file and permanent_delete are split into one    *)
(* action per catalog statement / backend call.                            *)
(***************************************************************************)
EXTENDS Integers, Sequences, FiniteSets, TLC

\* ------------------------------------------------------------------ bounds
MaxUploads == 2        \* upload requests started in one behaviour (= catalog rows at most)
NumContents == 1       \* distinct byte contents a client may send
MaxShares == 1         \* share tokens created in one behaviour
MaxDownloads == 2      \* redemptions counted per share token
MaxLocked == 1         \* rows that hold a lock at the same time
MaxFolderRequests == 2 \* rename and move requests started in one behaviour of SpecDir
MaxChunks == 4         \* chunks of one multipart body
MaxPermits == 1        \* download permits the transfer scheduler hands out at a time

\* ---------------------------------------------------------------- constants
NULL == "NULL"                     \* SQL NULL / Option::None for text and uuid columns
NoId == 0                          \* Option::None for a row id
NoKey == <<>>                      \* the empty storage path
Root == <<>>                       \* parent_path IS NULL (the root folder)
MaxCandidates == 999               \* generate_unique_filename probes 1..999

Procs == {"p1", "p2"}              \* requests in flight at the same time
Tenants == {"T1", "T2"}
Departments == {"D1", "D2"}
Contents == 1 .. NumContents
FileIds == 1 .. MaxUploads
Visibilities == {"department", "private"}

\* The users table and the claims of each user's token (AuthUser).
Users == {"alice", "bob", "mallory", "mgr", "adm", "root", "xadm", "xemp"}
\* A user of tenant T1 whose role is the tenant's custom role "Auditor".
Auditors == {"aud"}

UserTable ==
  [u \in Users \cup Auditors |->
     CASE u = "alice"   -> [tenant_id |-> "T1", role |-> "Employee",   department_id |-> "D1", allowed |-> {}]
       [] u = "bob"     -> [tenant_id |-> "T1", role |-> "Employee",   department_id |-> "D2", allowed |-> {}]
       [] u = "mallory" -> [tenant_id |-> "T1", role |-> "Employee",   department_id |-> "D1", allowed |-> {}]
       [] u = "mgr"     -> [tenant_id |-> "T1", role |-> "Manager",    department_id |-> "D1", allowed |-> {"D2"}]
       [] u = "adm"     -> [tenant_id |-> "T1", role |-> "Admin",      department_id |-> NULL, allowed |-> {}]
       [] u = "root"    -> [tenant_id |-> "T1", role |-> "SuperAdmin", department_id |-> NULL, allowed |-> {}]
       [] u = "xadm"    -> [tenant_id |-> "T2", role |-> "Admin",      department_id |-> NULL, allowed |-> {}]
       [] u = "aud"     -> [tenant_id |-> "T1", role |-> "Auditor",    department_id |-> "D1", allowed |-> {}]
       [] OTHER         -> [tenant_id |-> "T2", role |-> "Employee",   department_id |-> NULL, allowed |-> {}]]

\* File names: a sequence of tokens whose last element is the extension.
NameA == <<"a", ".txt">>
NameB == <<"b", ".txt">>
Names == {NameA, NameB}

VARIABLES
  files,        \* files_metadata: row id -> row
  nextId,       \* the next row id the catalog hands out
  storage,      \* keys of the objects present in the backend
  puts,         \* backend put calls that succeeded so far
  versioning,   \* ComplianceRestrictions.file_versioning_required of tenant T1
  req,          \* per process: the request it is serving and its locals
  started,      \* upload, rename and move requests started so far
  shares,       \* file_shares rows
  served,       \* the read response being sent: who gets the content of which rows
  temp_dir,     \* per worker: the scratch files its upload requests created
                \* (clovalink_upload_<uuid>_<name>) that are still in the temp directory
  permits,      \* download permits of the transfer scheduler that are held
  file_groups,  \* file_groups: group id -> row
  automation_jobs, \* automation_jobs: job id -> row
  redis,        \* the automation lock keys present in Redis, by job id
  sched,        \* per scheduler instance: its place in poll_and_execute and its locals
  upload_count  \* file_requests.upload_count, by file request

vars == <<files, nextId, storage, puts, versioning, req, started, shares, served, temp_dir, permits,
         file_groups, automation_jobs, redis, sched, upload_count>>

\* --------------------------------------------------------------- catalog
NoRow ==
  [present |-> FALSE, tenant_id |-> NULL, name |-> <<>>, parent_path |-> Root,
   department_id |-> NULL, visibility |-> "department", owner_id |-> NULL,
   is_deleted |-> FALSE, is_directory |-> FALSE, content_hash |-> NoKey,
   storage_path |-> NoKey, version |-> 1, version_parent_id |-> NoId,
   is_immutable |-> FALSE, is_locked |-> FALSE, locked_by |-> NULL,
   lock_requires_role |-> NULL, lock_has_password |-> FALSE, size_bytes |-> 0,
   locked_at |-> NULL]

\* A file_groups row, with the lock columns, and the groups of the catalog: one
\* group of tenant T1 that alice created.
NoGroup ==
  [tenant_id |-> NULL, created_by |-> NULL, is_locked |-> FALSE, locked_by |-> NULL,
   locked_at |-> NULL, lock_has_password |-> FALSE, lock_requires_role |-> NULL]

GroupCatalog == <<[NoGroup EXCEPT !.tenant_id = "T1", !.created_by = "alice"]>>

\* The scheduler instances, the automation_jobs rows (due: enabled and
\* next_run_at <= now; next_run_at: 0 for a time still to come, else the place
\* of the job among the due jobs by ascending next_run_at) and an instance
\* outside poll_and_execute.
Schedulers == {"s1", "s2"}
NumJobs == 2
Jobs == 1 .. NumJobs
JobCatalog == [j \in Jobs |-> [due |-> FALSE, last_status |-> NULL, next_run_at |-> 0]]
IdleScheduler == [pc |-> "idle", due_jobs |-> <<>>, job |-> NoId, lapsed |-> FALSE]

Rows(f) == {i \in DOMAIN f : f[i].present}
LiveRows(f) == {i \in Rows(f) : ~f[i].is_deleted}

\* BLAKE3 of the content, as hex digits: distinct contents have distinct hashes,
\* and may share the two-digit prefix.
Blake3Hex(c) == <<"a", "f", ToString(c)>>

\* {tenant_id}/{dept_id or 'private'}/{hash_prefix}/{content_hash}
ContentKey(tenant_id, department_id, content_hash) ==
  <<tenant_id,
    IF department_id = NULL THEN "private" ELSE department_id,
    SubSeq(content_hash, 1, 2),
    content_hash>>

\* "{base} ({i}){ext}"
Candidate(name, i) ==
  SubSeq(name, 1, Len(name) - 1) \o <<ToString(i)>> \o <<name[Len(name)]>>

\* The scope probe of upload_file and generate_unique_filename.
NameExistsInScope(f, tenant_id, name, parent_path, department_id, visibility) ==
  \E i \in LiveRows(f) :
    /\ f[i].tenant_id = tenant_id
    /\ f[i].name = name
    /\ f[i].parent_path = parent_path
    /\ f[i].department_id = department_id
    /\ f[i].visibility = visibility

RECURSIVE UniqueFrom(_, _, _, _, _, _, _)
UniqueFrom(f, tenant_id, name, parent_path, department_id, visibility, i) ==
  IF i > MaxCandidates
  THEN SubSeq(name, 1, Len(name) - 1) \o <<"_uuid">> \o <<name[Len(name)]>>
  ELSE IF ~NameExistsInScope(f, tenant_id, Candidate(name, i), parent_path, department_id, visibility)
       THEN Candidate(name, i)
       ELSE UniqueFrom(f, tenant_id, name, parent_path, department_id, visibility, i + 1)

generate_unique_filename(f, tenant_id, name, parent_path, department_id, visibility) ==
  UniqueFrom(f, tenant_id, name, parent_path, department_id, visibility, 1)


\* -------------------------------------------------------- access decision
\* can_access_file: "true", "false" or "NOT_FOUND" (the Err(StatusCode) return).
has_required_role(lock_requires_role, user_role) ==
  CASE lock_requires_role = "Manager"    -> user_role = "Manager"
    [] lock_requires_role = "Admin"      -> FALSE
    [] lock_requires_role = "SuperAdmin" -> FALSE
    [] lock_requires_role = NULL         -> FALSE
    [] OTHER                             -> user_role = lock_requires_role

\* The deny test of the lock block (is_locked is tested by the caller).
LockGateDenies(row, user_id, user_role) ==
  /\ ~(row.locked_by = user_id)
  /\ ~(row.owner_id = user_id)
  /\ ~has_required_role(row.lock_requires_role, user_role)

\* The rows the metadata query of can_access_file can return.
AccessRowFound(f, file_id, tenant_id) ==
  /\ file_id \in Rows(f)
  /\ f[file_id].tenant_id = tenant_id
  /\ ~f[file_id].is_deleted

\* can_access_file without the private-visibility block: the department rules
\* decide for a private record as they do for any other.
can_access_file_private_skipped(f, file_id, tenant_id, user_id, user_role, action) ==
  IF user_role = "SuperAdmin" \/ user_role = "Admin" THEN "true"
  ELSE IF ~AccessRowFound(f, file_id, tenant_id) THEN "NOT_FOUND"
  ELSE LET row == f[file_id]
           user_dept == IF user_id \in DOMAIN UserTable THEN UserTable[user_id].department_id ELSE NULL
           allowed_depts == IF user_id \in DOMAIN UserTable THEN UserTable[user_id].allowed ELSE {}
       IN IF row.is_locked /\ LockGateDenies(row, user_id, user_role) THEN "false"
          ELSE IF action = "share" /\ ~(row.owner_id = user_id) /\ ~(user_role = "Manager")
               THEN "false"
          ELSE IF row.department_id = NULL THEN "true"
          ELSE IF user_dept = row.department_id THEN "true"
          ELSE IF row.department_id \in allowed_depts THEN "true"
          ELSE "false"

can_access_file(f, file_id, tenant_id, user_id, user_role, action) ==
  IF user_role = "SuperAdmin" \/ user_role = "Admin" THEN "true"
  ELSE IF ~AccessRowFound(f, file_id, tenant_id) THEN "NOT_FOUND"
  ELSE LET row == f[file_id]
           user_dept == IF user_id \in DOMAIN UserTable THEN UserTable[user_id].department_id ELSE NULL
           allowed_depts == IF user_id \in DOMAIN UserTable THEN UserTable[user_id].allowed ELSE {}
       IN IF row.is_locked /\ LockGateDenies(row, user_id, user_role) THEN "false"
          ELSE IF row.visibility = "private"
               THEN (IF row.owner_id = user_id THEN "true" ELSE "false")
          ELSE IF action = "share" /\ ~(row.owner_id = user_id) /\ ~(user_role = "Manager")
               THEN "false"
          ELSE IF row.department_id = NULL THEN "true"
          ELSE IF user_dept = row.department_id THEN "true"
          ELSE IF row.department_id \in allowed_depts THEN "true"
          ELSE "false"

\* "Verify tenant access": the guard the mutating handlers start with.
TenantAccessDenied(user_id, tenant_id) ==
  UserTable[user_id].role # "SuperAdmin" /\ UserTable[user_id].tenant_id # tenant_id

\* ------------------------------------------------------------ requests
\* A read response: who asked, through what, the outcome, and the rows whose
\* content it carries.
NoResponse ==
  [via |-> "none", user |-> NULL, target |-> NoId, token |-> NoId, status |-> "none", rows |-> {}]

IdleReq ==
  [op |-> "idle", pc |-> "idle", user |-> NULL, tenant |-> NULL,
   file_name |-> <<>>, content |-> 0, visibility |-> "department", parent_path |-> Root,
   existing_id |-> NoId, existing_version |-> 0, final_file_name |-> <<>>,
   existing_content |-> NoKey, dedup_hit |-> FALSE, key |-> NoKey,
   version |-> 1, version_parent_id |-> NoId,
   todo |-> <<>>, should_delete_storage |-> FALSE, storage_deleted_count |-> 0,
   count_failed |-> FALSE, fields |-> 0, uploaded_files |-> 0,
   old_path |-> Root, new_path |-> Root, target_dept_id |-> NULL, is_directory |-> FALSE,
   descendants |-> {},
   size |-> 0, body |-> 0, has_password |-> FALSE, required_role |-> NULL, password |-> "none",
   file_id |-> NoId, status |-> "none"]

Finish(r, status) == [r EXCEPT !.pc = "done", !.status = status]

\* ------------------------------------------------------------ upload_file
\* The users that send mutating requests in the storage specification.
CasUsers == {"alice", "bob"}

\* Bytes of one chunk of a multipart body.
ChunkLen == 1

\* Tenant check of upload_file; the multipart field carries the name and the
\* bytes. Here the body is one chunk, streamed to the scratch file without an
\* error and within the tenant's limits; UploadOpen streams it chunk by chunk.
UploadStart(p, u, tenant_id, file_name, content, visibility) ==
  /\ req[p].pc = "idle"
  /\ started < MaxUploads
  /\ started' = started + 1
  /\ LET r == [IdleReq EXCEPT !.op = "upload", !.user = u, !.tenant = tenant_id,
                              !.file_name = file_name, !.content = content,
                              !.visibility = IF visibility = "private" THEN "private" ELSE "department"]
     IN IF TenantAccessDenied(u, tenant_id)
        THEN /\ req' = [req EXCEPT ![p] = Finish(r, "FORBIDDEN")]
             /\ UNCHANGED temp_dir
        ELSE /\ req' = [req EXCEPT ![p] = [r EXCEPT !.pc = "probe_name", !.size = ChunkLen]]
             /\ temp_dir' = [temp_dir EXCEPT ![p] = @ + 1]
  /\ UNCHANGED <<files, nextId, storage, puts, versioning, shares, served, permits, file_groups, automation_jobs, redis, sched, upload_count>>

\* Rows the existing_file query ranks first (ORDER BY version DESC ... LIMIT 1).
ExistingFileMatches(f, r) ==
  LET dept == UserTable[r.user].department_id
      m == {i \in LiveRows(f) :
              /\ f[i].tenant_id = r.tenant
              /\ f[i].name = r.file_name
              /\ f[i].parent_path = r.parent_path
              /\ f[i].department_id = dept
              /\ f[i].visibility = r.visibility}
  IN {i \in m : \A j \in m : f[j].version <= f[i].version}

\* existing_file query, then the auto-rename outside versioning mode.
UploadProbeName(p) ==
  /\ req[p].pc = "probe_name"
  /\ LET r == req[p]
         dept == UserTable[r.user].department_id
         m == ExistingFileMatches(files, r)
     IN IF m = {}
        THEN req' = [req EXCEPT ![p] = [r EXCEPT !.pc = "probe_content",
                                                 !.final_file_name = r.file_name]]
        ELSE \E e \in m :
               req' = [req EXCEPT ![p] =
                 [r EXCEPT !.pc = "probe_content",
                           !.existing_id = e,
                           !.existing_version = files[e].version,
                           !.final_file_name =
                              IF ~versioning
                              THEN generate_unique_filename(files, r.tenant, r.file_name,
                                                            r.parent_path, dept, r.visibility)
                              ELSE r.file_name]]
  /\ UNCHANGED <<files, nextId, storage, puts, versioning, started, shares, served, temp_dir, permits, file_groups, automation_jobs, redis, sched, upload_count>>

\* Storage paths the existing_content query can return (LIMIT 1, no order).
ExistingContentPaths(f, tenant_id, department_id, content_hash) ==
  {f[i].storage_path : i \in {j \in LiveRows(f) :
                                 /\ f[j].tenant_id = tenant_id
                                 /\ f[j].department_id = department_id
                                 /\ f[j].content_hash = content_hash
                                 /\ ~f[j].is_directory}}

\* After the dedup decision: put the bytes, or go on to the catalog writes.
AfterContent(r) ==
  IF ~r.dedup_hit THEN "put"
  ELSE IF versioning /\ r.version_parent_id # NoId THEN "mark_immutable"
  ELSE "insert"

\* existing_content query, version and key; on a dedup hit the put is skipped
\* and the scratch file is removed next.
UploadProbeContent(p) ==
  /\ req[p].pc = "probe_content"
  /\ LET r == req[p]
         dept == UserTable[r.user].department_id
         content_hash == Blake3Hex(r.content)
         content_key == ContentKey(r.tenant, dept, content_hash)
         paths == ExistingContentPaths(files, r.tenant, dept, content_hash)
         ver == IF versioning /\ r.existing_id # NoId THEN r.existing_version + 1 ELSE 1
         par == IF versioning /\ r.existing_id # NoId THEN r.existing_id ELSE NoId
     IN IF paths = {}
        THEN LET r1 == [r EXCEPT !.dedup_hit = FALSE, !.key = content_key,
                                 !.version = ver, !.version_parent_id = par]
             IN /\ req' = [req EXCEPT ![p] = [r1 EXCEPT !.pc = AfterContent(r1)]]
                /\ UNCHANGED temp_dir
        ELSE \E existing_path \in paths :
               LET r1 == [r EXCEPT !.dedup_hit = TRUE, !.existing_content = existing_path,
                                   !.key = existing_path,
                                   !.version = ver, !.version_parent_id = par]
               IN /\ req' = [req EXCEPT ![p] = [r1 EXCEPT !.pc = AfterContent(r1)]]
                  /\ temp_dir' = [temp_dir EXCEPT ![p] = @ - 1]
  /\ UNCHANGED <<files, nextId, storage, puts, versioning, started, shares, served, permits, file_groups, automation_jobs, redis, sched, upload_count>>

\* storage.upload_from_path(key, temp_path): the put succeeds or fails; the
\* scratch file is removed after either.
UploadPut(p) ==
  /\ req[p].pc = "put"
  /\ temp_dir' = [temp_dir EXCEPT ![p] = @ - 1]
  /\ LET r == req[p]
     IN \/ /\ storage' = storage \cup {r.key}
           /\ puts' = puts + 1
           /\ req' = [req EXCEPT ![p] =
                        [r EXCEPT !.pc = IF versioning /\ r.version_parent_id # NoId
                                         THEN "mark_immutable" ELSE "insert"]]
        \/ /\ req' = [req EXCEPT ![p] = Finish(r, "INTERNAL_SERVER_ERROR")]
           /\ UNCHANGED <<storage, puts>>
  /\ UNCHANGED <<files, nextId, versioning, started, shares, served, permits, file_groups, automation_jobs, redis, sched, upload_count>>

\* "UPDATE files_metadata SET is_immutable = true WHERE id = $1" (result ignored).
UploadMarkImmutable(p) ==
  /\ req[p].pc = "mark_immutable"
  /\ LET r == req[p]
     IN /\ files' = IF r.version_parent_id \in Rows(files)
                    THEN [files EXCEPT ![r.version_parent_id].is_immutable = TRUE]
                    ELSE files
        /\ req' = [req EXCEPT ![p] = [r EXCEPT !.pc = "insert"]]
  /\ UNCHANGED <<nextId, storage, puts, versioning, started, shares, served, temp_dir, permits, file_groups, automation_jobs, redis, sched, upload_count>>

\* The row upload_file inserts.
NewFileRow(r) ==
  [NoRow EXCEPT !.present = TRUE, !.tenant_id = r.tenant, !.name = r.final_file_name,
                !.storage_path = r.key, !.is_directory = FALSE, !.owner_id = r.user,
                !.department_id = UserTable[r.user].department_id,
                !.parent_path = r.parent_path, !.version = r.version,
                !.version_parent_id = r.version_parent_id, !.is_immutable = FALSE,
                !.visibility = r.visibility, !.content_hash = Blake3Hex(r.content),
                !.size_bytes = r.size]

\* INSERT INTO files_metadata ... RETURNING id: the insert succeeds or fails.
UploadInsert(p) ==
  /\ req[p].pc = "insert"
  /\ LET r == req[p]
     IN \/ /\ nextId \in FileIds
           /\ files' = [files EXCEPT ![nextId] = NewFileRow(r)]
           /\ nextId' = nextId + 1
           /\ req' = [req EXCEPT ![p] = Finish([r EXCEPT !.file_id = nextId], "OK")]
        \/ /\ req' = [req EXCEPT ![p] = Finish(r, "INTERNAL_SERVER_ERROR")]
           /\ UNCHANGED <<files, nextId>>
  /\ UNCHANGED <<storage, puts, versioning, started, shares, served, temp_dir, permits, file_groups, automation_jobs, redis, sched, upload_count>>

\* The response is sent; the worker takes the next request.
Return(p) ==
  /\ req[p].pc = "done"
  /\ req' = [req EXCEPT ![p] = IdleReq]
  /\ UNCHANGED <<files, nextId, storage, puts, versioning, started, shares, served, temp_dir, permits, file_groups, automation_jobs, redis, sched, upload_count>>

\* ------------------------------------------ upload_file, the body by chunk
\* tenants.max_upload_size_bytes and tenants.storage_quota_bytes of tenant T1.
max_upload_size_bytes == 2
storage_quota_bytes == 3

RECURSIVE SumSizes(_, _)
SumSizes(f, S) ==
  IF S = {} THEN 0
  ELSE LET i == CHOOSE j \in S : TRUE
       IN f[i].size_bytes + SumSizes(f, S \ {i})

\* SELECT COALESCE(SUM(size_bytes), 0) ... is_deleted = false AND is_directory = false
CurrentStorage(f, tenant_id) ==
  SumSizes(f, {i \in LiveRows(f) : f[i].tenant_id = tenant_id /\ ~f[i].is_directory})

\* Tenant check, then File::create of the scratch file; the body has `chunks`
\* chunks still to come.
UploadOpen(p, u, tenant_id, file_name, content, visibility, chunks) ==
  /\ req[p].pc = "idle"
  /\ started < MaxUploads
  /\ started' = started + 1
  /\ LET r == [IdleReq EXCEPT !.op = "upload", !.user = u, !.tenant = tenant_id,
                              !.file_name = file_name, !.content = content,
                              !.visibility = IF visibility = "private" THEN "private" ELSE "department"]
     IN IF TenantAccessDenied(u, tenant_id)
        THEN /\ req' = [req EXCEPT ![p] = Finish(r, "FORBIDDEN")]
             /\ UNCHANGED temp_dir
        ELSE \/ /\ req' = [req EXCEPT ![p] = [r EXCEPT !.pc = "chunk", !.body = chunks]]
                /\ temp_dir' = [temp_dir EXCEPT ![p] = @ + 1]
             \/ /\ req' = [req EXCEPT ![p] = Finish(r, "INTERNAL_SERVER_ERROR")]
                /\ UNCHANGED temp_dir
  /\ UNCHANGED <<files, nextId, storage, puts, versioning, shares, served, permits, file_groups, automation_jobs, redis, sched, upload_count>>

\* One turn of "while let Some(chunk) = field.chunk().await ...?": the read
\* fails, or the chunk is counted and hashed and the write to the scratch file
\* succeeds or fails; after the last chunk the loop ends.
UploadChunk(p) ==
  /\ req[p].pc = "chunk"
  /\ LET r == req[p]
     IN IF r.body = 0
        THEN req' = [req EXCEPT ![p] = [r EXCEPT !.pc = "flush"]]
        ELSE \/ req' = [req EXCEPT ![p] = Finish(r, "INTERNAL_SERVER_ERROR")]
             \/ req' = [req EXCEPT ![p] = [r EXCEPT !.size = @ + ChunkLen, !.body = @ - 1]]
             \/ req' = [req EXCEPT ![p] =
                          Finish([r EXCEPT !.size = @ + ChunkLen], "INTERNAL_SERVER_ERROR")]
  /\ UNCHANGED <<files, nextId, storage, puts, versioning, started, shares, served, temp_dir, permits, file_groups, automation_jobs, redis, sched, upload_count>>

\* temp_file.flush().await ...?
UploadFlush(p) ==
  /\ req[p].pc = "flush"
  /\ \/ req' = [req EXCEPT ![p] = [req[p] EXCEPT !.pc = "limits"]]
     \/ req' = [req EXCEPT ![p] = Finish(req[p], "INTERNAL_SERVER_ERROR")]
  /\ UNCHANGED <<files, nextId, storage, puts, versioning, started, shares, served, temp_dir, permits, file_groups, automation_jobs, redis, sched, upload_count>>

\* The tenant_limits query, the size test, the usage query and the quota test,
\* all after the body was written; both rejections remove the scratch file.
UploadLimits(p) ==
  /\ req[p].pc = "limits"
  /\ LET r == req[p]
     IN \/ /\ req' = [req EXCEPT ![p] = Finish(r, "INTERNAL_SERVER_ERROR")]
           /\ UNCHANGED temp_dir
        \/ /\ r.size > max_upload_size_bytes
           /\ req' = [req EXCEPT ![p] = Finish(r, "FILE_TOO_LARGE")]
           /\ temp_dir' = [temp_dir EXCEPT ![p] = @ - 1]
        \/ /\ r.size <= max_upload_size_bytes
           /\ CurrentStorage(files, r.tenant) + r.size > storage_quota_bytes
           /\ req' = [req EXCEPT ![p] = Finish(r, "QUOTA_EXCEEDED")]
           /\ temp_dir' = [temp_dir EXCEPT ![p] = @ - 1]
        \/ /\ r.size <= max_upload_size_bytes
           /\ CurrentStorage(files, r.tenant) + r.size <= storage_quota_bytes
           /\ req' = [req EXCEPT ![p] = [r EXCEPT !.pc = "probe_name"]]
           /\ UNCHANGED temp_dir
  /\ UNCHANGED <<files, nextId, storage, puts, versioning, started, shares, served, permits, file_groups, automation_jobs, redis, sched, upload_count>>

\* ------------------------------------------------------- public_upload
\* file_requests rows create_file_request wrote for alice in tenant T1, one
\* with a department and one without.
FileRequests ==
  {[tenant_id |-> "T1", department_id |-> d, created_by |-> "alice"] : d \in {NULL, "D1"}}

\* Uuid::nil(), the department part of the key for a request with no department.
NilUuid == "00000000-0000-0000-0000-000000000000"

\* format!("{}/{}/{}", file_request.tenant_id, department_id, content_hash)
PublicStoragePath(tenant_id, department_id, content_hash) ==
  <<tenant_id, IF department_id = NULL THEN NilUuid ELSE department_id, content_hash>>

\* format!("{}-{}", nanoid!(8), file_name): the name as it is stored.
UniqueFilename(id, file_name) == <<"n", ToString(id)>> \o file_name

\* The request row is found active; File::create of the scratch file.
PublicUploadOpen(p, fr, file_name, content, chunks) ==
  /\ req[p].pc = "idle"
  /\ started < MaxUploads
  /\ started' = started + 1
  /\ LET r == [IdleReq EXCEPT !.op = "public_upload", !.user = fr.created_by,
                              !.tenant = fr.tenant_id, !.target_dept_id = fr.department_id,
                              !.file_name = file_name, !.content = content]
     IN \/ /\ req' = [req EXCEPT ![p] = [r EXCEPT !.pc = "public_chunk", !.body = chunks]]
           /\ temp_dir' = [temp_dir EXCEPT ![p] = @ + 1]
        \/ /\ req' = [req EXCEPT ![p] = Finish(r, "INTERNAL_SERVER_ERROR")]
           /\ UNCHANGED temp_dir
  /\ UNCHANGED <<files, nextId, storage, puts, versioning, shares, served, permits, file_groups, automation_jobs, redis, sched, upload_count>>

\* One turn of the chunk loop, with the max upload size tested on the running
\* size; after the last chunk the flush.
PublicUploadChunk(p) ==
  /\ req[p].pc = "public_chunk"
  /\ LET r == req[p]
     IN IF r.body = 0
        THEN /\ \/ req' = [req EXCEPT ![p] = [r EXCEPT !.pc = "public_put"]]
                \/ req' = [req EXCEPT ![p] = Finish(r, "INTERNAL_SERVER_ERROR")]
             /\ UNCHANGED temp_dir
        ELSE \/ /\ req' = [req EXCEPT ![p] = Finish(r, "INTERNAL_SERVER_ERROR")]
                /\ UNCHANGED temp_dir
             \/ /\ r.size + ChunkLen > max_upload_size_bytes
                /\ req' = [req EXCEPT ![p] =
                             Finish([r EXCEPT !.size = @ + ChunkLen], "PAYLOAD_TOO_LARGE")]
                /\ temp_dir' = [temp_dir EXCEPT ![p] = @ - 1]
             \/ /\ r.size + ChunkLen <= max_upload_size_bytes
                /\ \/ req' = [req EXCEPT ![p] =
                                [r EXCEPT !.size = @ + ChunkLen, !.body = @ - 1]]
                   \/ req' = [req EXCEPT ![p] =
                                Finish([r EXCEPT !.size = @ + ChunkLen], "INTERNAL_SERVER_ERROR")]
                /\ UNCHANGED temp_dir
  /\ UNCHANGED <<files, nextId, storage, puts, versioning, started, shares, served, permits, file_groups, automation_jobs, redis, sched, upload_count>>

\* storage.exists(storage_path), the put when the object is not there, and the
\* removal of the scratch file.
PublicUploadPut(p) ==
  /\ req[p].pc = "public_put"
  /\ LET r == req[p]
         storage_path == PublicStoragePath(r.tenant, r.target_dept_id, Blake3Hex(r.content))
     IN IF storage_path \in storage
        THEN /\ req' = [req EXCEPT ![p] = [r EXCEPT !.pc = "public_insert", !.key = storage_path,
                                                   !.dedup_hit = TRUE]]
             /\ UNCHANGED <<storage, puts>>
        ELSE \/ /\ storage' = storage \cup {storage_path}
                /\ puts' = puts + 1
                /\ req' = [req EXCEPT ![p] = [r EXCEPT !.pc = "public_insert",
                                                      !.key = storage_path]]
             \/ /\ req' = [req EXCEPT ![p] = Finish(r, "INTERNAL_SERVER_ERROR")]
                /\ UNCHANGED <<storage, puts>>
  /\ temp_dir' = [temp_dir EXCEPT ![p] = @ - 1]
  /\ UNCHANGED <<files, nextId, versioning, started, shares, served, permits, file_groups, automation_jobs, redis, sched, upload_count>>

\* INSERT INTO files_metadata of public_upload: the owner is the request's creator.
PublicUploadInsert(p) ==
  /\ req[p].pc = "public_insert"
  /\ LET r == req[p]
     IN \/ /\ nextId \in FileIds
           /\ files' = [files EXCEPT ![nextId] =
                [NoRow EXCEPT !.present = TRUE, !.tenant_id = r.tenant,
                              !.department_id = r.target_dept_id,
                              !.name = UniqueFilename(nextId, r.file_name),
                              !.storage_path = r.key, !.size_bytes = r.size,
                              !.owner_id = r.user, !.content_hash = Blake3Hex(r.content)]]
           /\ nextId' = nextId + 1
           /\ req' = [req EXCEPT ![p] = Finish([r EXCEPT !.file_id = nextId], "OK")]
        \/ /\ req' = [req EXCEPT ![p] = Finish(r, "INTERNAL_SERVER_ERROR")]
           /\ UNCHANGED <<files, nextId>>
  /\ UNCHANGED <<storage, puts, versioning, started, shares, served, temp_dir, permits, file_groups, automation_jobs, redis, sched, upload_count>>

\* ------------------------------------- public_upload, the request as a whole
\* file_requests.max_uploads of the rows above.
max_uploads == 1

\* The file_requests row a request is serving.
RequestRow(r) ==
  [tenant_id |-> r.tenant, department_id |-> r.target_dept_id, created_by |-> r.user]

\* The lookup by token and "if file_request.upload_count >= max { FORBIDDEN }",
\* before the first field of the multipart body is read; the body carries
\* `fields` files.
PublicUploadBegin(p, fr, fields) ==
  /\ req[p].pc = "idle"
  /\ LET r == [IdleReq EXCEPT !.op = "public_upload", !.user = fr.created_by,
                              !.tenant = fr.tenant_id, !.target_dept_id = fr.department_id,
                              !.file_name = NameA, !.content = 1]
     IN req' = [req EXCEPT ![p] =
                  IF upload_count[fr] >= max_uploads
                  THEN Finish(r, "FORBIDDEN")
                  ELSE [r EXCEPT !.pc = "public_field", !.fields = fields]]
  /\ UNCHANGED <<files, nextId, storage, puts, versioning, started, shares, served, temp_dir, permits, file_groups, automation_jobs, redis, sched, upload_count>>

\* One turn of "while let Some(field) = multipart.next_field()": the file of
\* one chunk is stored, its files_metadata row and its file_request_uploads
\* row are inserted and the upload is pushed on uploaded_files; any failure
\* ends the request with 500. After the last field the loop ends.
PublicUploadField(p) ==
  /\ req[p].pc = "public_field"
  /\ LET r == req[p]
         storage_path == PublicStoragePath(r.tenant, r.target_dept_id, Blake3Hex(r.content))
     IN IF r.fields = 0
        THEN /\ req' = [req EXCEPT ![p] = [r EXCEPT !.pc = "public_count"]]
             /\ UNCHANGED <<files, nextId, storage, puts>>
        ELSE \/ /\ nextId \in FileIds
                /\ storage' = storage \cup {storage_path}
                /\ puts' = IF storage_path \in storage THEN puts ELSE puts + 1
                /\ files' = [files EXCEPT ![nextId] =
                     [NoRow EXCEPT !.present = TRUE, !.tenant_id = r.tenant,
                                   !.department_id = r.target_dept_id,
                                   !.name = UniqueFilename(nextId, r.file_name),
                                   !.storage_path = storage_path, !.size_bytes = ChunkLen,
                                   !.owner_id = r.user, !.content_hash = Blake3Hex(r.content)]]
                /\ nextId' = nextId + 1
                /\ req' = [req EXCEPT ![p] = [r EXCEPT !.fields = @ - 1,
                                                     !.uploaded_files = @ + 1]]
             \/ /\ req' = [req EXCEPT ![p] = Finish(r, "INTERNAL_SERVER_ERROR")]
                /\ UNCHANGED <<files, nextId, storage, puts>>
  /\ UNCHANGED <<versioning, started, shares, served, temp_dir, permits, file_groups, automation_jobs, redis, sched, upload_count>>

\* UPDATE file_requests SET upload_count = upload_count + $1 WHERE id = $2,
\* with $1 = uploaded_files.len()
PublicUploadCount(p) ==
  /\ req[p].pc = "public_count"
  /\ LET r == req[p]
     IN \/ /\ upload_count' = [upload_count EXCEPT ![RequestRow(r)] = @ + r.uploaded_files]
           /\ req' = [req EXCEPT ![p] = Finish(r, "OK")]
        \/ /\ req' = [req EXCEPT ![p] = Finish(r, "INTERNAL_SERVER_ERROR")]
           /\ UNCHANGED upload_count
  /\ UNCHANGED <<files, nextId, storage, puts, versioning, started, shares, served, temp_dir, permits, file_groups, automation_jobs, redis, sched>>

\* ------------------------------------------------------- folders and paths
\* A path is the sequence of the names on it; a folder's own path is
\* parent_path + "/" + name.
FolderPath(row) == Append(row.parent_path, row.name)

\* parent_path = $2 OR parent_path LIKE $2 || '/%'
IsUnder(path, folder_path) ==
  /\ Len(path) >= Len(folder_path)
  /\ SubSeq(path, 1, Len(folder_path)) = folder_path

\* The path with its leading old folder path replaced by the new one.
Rebase(path, old_path, new_path) ==
  new_path \o SubSeq(path, Len(old_path) + 1, Len(path))

\* ------------------------------------------------------------ delete_file
\* Soft delete: the whole handler in one step; a rejected request changes nothing.
\* The catalog after the UPDATEs of delete_file: the row, then for a folder its
\* live direct and nested children.
SoftDeleted(f, tenant_id, fid) ==
  [i \in DOMAIN f |->
     IF i = fid
     THEN [f[i] EXCEPT !.is_deleted = TRUE]
     ELSE IF /\ f[fid].is_directory
             /\ f[i].present
             /\ f[i].tenant_id = tenant_id
             /\ IsUnder(f[i].parent_path, FolderPath(f[fid]))
             /\ ~f[i].is_deleted
          THEN [f[i] EXCEPT !.is_deleted = TRUE]
          ELSE f[i]]

\* The checks of delete_file before its first UPDATE.
DeleteAccepted(f, u, tenant_id, fid) ==
  /\ ~TenantAccessDenied(u, tenant_id)
  /\ AccessRowFound(f, fid, tenant_id)
  /\ LET row == f[fid]
         role == UserTable[u].role
         is_admin == role = "SuperAdmin" \/ role = "Admin"
         is_owner == row.owner_id = u
     IN /\ ~row.is_locked
        /\ ~(row.is_immutable /\ versioning)
        /\ is_admin \/ is_owner \/ can_access_file(f, fid, tenant_id, u, role, "delete") = "true"

DeleteFile(u, tenant_id, fid) ==
  /\ DeleteAccepted(files, u, tenant_id, fid)
  /\ files' = SoftDeleted(files, tenant_id, fid)
  /\ UNCHANGED <<nextId, storage, puts, versioning, req, started, shares, served, temp_dir, permits, file_groups, automation_jobs, redis, sched, upload_count>>

\* --------------------------------------------------- delete_file, by statement
\* The lookup and the checks of delete_file: a locked row, an immutable row of
\* a tenant that requires versioning, and an actor the access decision denies
\* are answered 403.
DeleteStart(p, u, tenant_id, fid) ==
  /\ req[p].pc = "idle"
  /\ ~TenantAccessDenied(u, tenant_id)
  /\ LET r == [IdleReq EXCEPT !.op = "delete", !.user = u, !.tenant = tenant_id, !.file_id = fid]
     IN req' = [req EXCEPT ![p] =
          IF ~AccessRowFound(files, fid, tenant_id) THEN Finish(r, "NOT_FOUND")
          ELSE IF ~DeleteAccepted(files, u, tenant_id, fid) THEN Finish(r, "FORBIDDEN")
          ELSE [r EXCEPT !.pc = "delete_row",
                         !.is_directory = files[fid].is_directory,
                         !.old_path = FolderPath(files[fid])]]
  /\ UNCHANGED <<files, nextId, storage, puts, versioning, started, shares, served, temp_dir, permits, file_groups, automation_jobs, redis, sched, upload_count>>

\* UPDATE files_metadata SET is_deleted = true WHERE id = $1 AND tenant_id = $2
DeleteRowStep(p) ==
  /\ req[p].pc = "delete_row"
  /\ LET r == req[p]
     IN \/ /\ files' = IF r.file_id \in Rows(files) /\ files[r.file_id].tenant_id = r.tenant
                       THEN [files EXCEPT ![r.file_id].is_deleted = TRUE]
                       ELSE files
           /\ req' = [req EXCEPT ![p] = IF r.is_directory
                                        THEN [r EXCEPT !.pc = "delete_direct"]
                                        ELSE Finish(r, "OK")]
        \/ /\ req' = [req EXCEPT ![p] = Finish(r, "INTERNAL_SERVER_ERROR")]
           /\ UNCHANGED files
  /\ UNCHANGED <<nextId, storage, puts, versioning, started, shares, served, temp_dir, permits, file_groups, automation_jobs, redis, sched, upload_count>>

\* UPDATE ... SET is_deleted = true WHERE tenant_id = $1 AND parent_path = $2
\*   AND is_deleted = false
DeleteDirectStep(p) ==
  /\ req[p].pc = "delete_direct"
  /\ LET r == req[p]
     IN \/ /\ files' = [i \in DOMAIN files |->
                          IF /\ files[i].present /\ files[i].tenant_id = r.tenant
                             /\ files[i].parent_path = r.old_path
                          THEN [files[i] EXCEPT !.is_deleted = TRUE]
                          ELSE files[i]]
           /\ req' = [req EXCEPT ![p] = [r EXCEPT !.pc = "delete_nested"]]
        \/ /\ req' = [req EXCEPT ![p] = Finish(r, "INTERNAL_SERVER_ERROR")]
           /\ UNCHANGED files
  /\ UNCHANGED <<nextId, storage, puts, versioning, started, shares, served, temp_dir, permits, file_groups, automation_jobs, redis, sched, upload_count>>

\* UPDATE ... SET is_deleted = true WHERE tenant_id = $1 AND parent_path LIKE $2
\*   AND is_deleted = false
DeleteNestedStep(p) ==
  /\ req[p].pc = "delete_nested"
  /\ LET r == req[p]
     IN \/ /\ files' = [i \in DOMAIN files |->
                          IF /\ files[i].present /\ files[i].tenant_id = r.tenant
                             /\ IsUnder(files[i].parent_path, r.old_path)
                             /\ files[i].parent_path # r.old_path
                          THEN [files[i] EXCEPT !.is_deleted = TRUE]
                          ELSE files[i]]
           /\ req' = [req EXCEPT ![p] = Finish(r, "OK")]
        \/ /\ req' = [req EXCEPT ![p] = Finish(r, "INTERNAL_SERVER_ERROR")]
           /\ UNCHANGED files
  /\ UNCHANGED <<nextId, storage, puts, versioning, started, shares, served, temp_dir, permits, file_groups, automation_jobs, redis, sched, upload_count>>

\* ----------------------------------------------------------- restore_file
TrashRowFound(f, fid, tenant_id) ==
  /\ fid \in Rows(f)
  /\ f[fid].tenant_id = tenant_id
  /\ f[fid].is_deleted

\* A restore that puts the row back at the root of the tenant.
Restored_to_root(f, tenant_id, fid) ==
  [f EXCEPT ![fid].is_deleted = FALSE, ![fid].parent_path = Root]

\* The catalog after the UPDATEs of restore_file: the row, then for a folder
\* every direct and nested child that is in the trash.
Restored(f, tenant_id, fid) ==
  [i \in DOMAIN f |->
     IF i = fid
     THEN [f[i] EXCEPT !.is_deleted = FALSE]
     ELSE IF /\ f[fid].is_directory
             /\ f[i].present
             /\ f[i].tenant_id = tenant_id
             /\ IsUnder(f[i].parent_path, FolderPath(f[fid]))
             /\ f[i].is_deleted
          THEN [f[i] EXCEPT !.is_deleted = FALSE]
          ELSE f[i]]

RestoreFile(u, tenant_id, fid) ==
  /\ ~TenantAccessDenied(u, tenant_id)
  /\ TrashRowFound(files, fid, tenant_id)
  /\ files' = Restored(files, tenant_id, fid)
  /\ UNCHANGED <<nextId, storage, puts, versioning, req, started, shares, served, temp_dir, permits, file_groups, automation_jobs, redis, sched, upload_count>>

\* restore_file as a request of worker p: the whole handler in one step, with
\* the request kept in req[p] until its response is returned.
RestoreRequest(p, u, tenant_id, fid) ==
  /\ req[p].pc = "idle"
  /\ ~TenantAccessDenied(u, tenant_id)
  /\ TrashRowFound(files, fid, tenant_id)
  /\ files' = Restored(files, tenant_id, fid)
  /\ req' = [req EXCEPT ![p] =
       Finish([IdleReq EXCEPT !.op = "restore", !.user = u, !.tenant = tenant_id,
                              !.file_id = fid], "OK")]
  /\ UNCHANGED <<nextId, storage, puts, versioning, started, shares, served, temp_dir, permits, file_groups, automation_jobs, redis, sched, upload_count>>

\* ------------------------------------------------------------ rename_file
RenameDuplicate(f, tenant_id, name, fid, parent_path) ==
  \E i \in LiveRows(f) :
    /\ f[i].tenant_id = tenant_id
    /\ f[i].name = name
    /\ i # fid
    /\ f[i].parent_path = parent_path

\* The checks of rename_file up to the duplicate probe.
RenameAccepted(f, u, tenant_id, fid, new_filename) ==
  /\ ~TenantAccessDenied(u, tenant_id)
  /\ can_access_file(f, fid, tenant_id, u, UserTable[u].role, "write") = "true"
  /\ AccessRowFound(f, fid, tenant_id)
  /\ ~f[fid].is_locked
  /\ ~f[fid].is_immutable
  /\ ~RenameDuplicate(f, tenant_id, new_filename, fid, f[fid].parent_path)

\* UPDATE files_metadata SET name = $1 WHERE id = $2
RenameRow(f, fid, new_filename) == [f EXCEPT ![fid].name = new_filename]

\* UPDATE ... SET parent_path = new WHERE tenant_id = $2 AND parent_path = old
RenameDirectChildren(f, tenant_id, old_folder_path, new_folder_path) ==
  [i \in DOMAIN f |->
     IF f[i].present /\ f[i].tenant_id = tenant_id /\ f[i].parent_path = old_folder_path
     THEN [f[i] EXCEPT !.parent_path = new_folder_path]
     ELSE f[i]]

\* The rows with parent_path LIKE old || '/%', each rewritten by replacen.
RenameNestedChildren(f, tenant_id, old_folder_path, new_folder_path) ==
  [i \in DOMAIN f |->
     IF /\ f[i].present /\ f[i].tenant_id = tenant_id
        /\ IsUnder(f[i].parent_path, old_folder_path)
        /\ f[i].parent_path # old_folder_path
     THEN [f[i] EXCEPT !.parent_path = Rebase(f[i].parent_path, old_folder_path, new_folder_path)]
     ELSE f[i]]

\* The whole handler in one step; a rejected request changes nothing.
RenameFile(u, tenant_id, fid, new_filename) ==
  /\ RenameAccepted(files, u, tenant_id, fid, new_filename)
  /\ LET row == files[fid]
         old_folder_path == FolderPath(row)
         new_folder_path == Append(row.parent_path, new_filename)
         f1 == RenameRow(files, fid, new_filename)
         f2 == RenameDirectChildren(f1, tenant_id, old_folder_path, new_folder_path)
         f3 == RenameNestedChildren(f2, tenant_id, old_folder_path, new_folder_path)
     IN files' = IF row.is_directory THEN f3 ELSE f1
  /\ UNCHANGED <<nextId, storage, puts, versioning, req, started, shares, served, temp_dir, permits, file_groups, automation_jobs, redis, sched, upload_count>>

\* -------------------------------------------------------------- move_file
\* target_parent: NoId for the root, else the id of the target folder.
\* target_dept: "keep" when the field is absent, NULL for "" / "null", else a department.
\* target_vis: "keep" when the field is absent.
TargetDept(row, target_dept) == IF target_dept = "keep" THEN row.department_id ELSE target_dept

TargetVisibility(row, target_vis) ==
  LET v == IF target_vis = "keep" THEN row.visibility ELSE target_vis
  IN IF v = "private" THEN "private" ELSE "department"

NewParentPath(f, target_parent) ==
  IF target_parent = NoId THEN Root ELSE FolderPath(f[target_parent])

\* The checks of move_file up to the duplicate probe.
MoveAccepted(f, u, tenant_id, fid, target_parent, target_dept) ==
  /\ ~TenantAccessDenied(u, tenant_id)
  /\ can_access_file(f, fid, tenant_id, u, UserTable[u].role, "write") = "true"
  /\ AccessRowFound(f, fid, tenant_id)
  /\ ~f[fid].is_locked
  /\ \/ TargetDept(f[fid], target_dept) = f[fid].department_id
     \/ UserTable[u].role \in {"SuperAdmin", "Admin"}
     \/ UserTable[u].department_id = TargetDept(f[fid], target_dept)
  /\ \/ target_parent = NoId
     \/ /\ target_parent \in LiveRows(f)
        /\ f[target_parent].tenant_id = tenant_id
        /\ f[target_parent].is_directory
  /\ ~RenameDuplicate(f, tenant_id, f[fid].name, fid, NewParentPath(f, target_parent))

\* A move that re-keys the content under the scope the row moves to.
Moved_rekeyed(r, u, path, target_visibility) ==
  [r EXCEPT !.parent_path = path,
            !.visibility = target_visibility,
            !.owner_id = IF target_visibility = "private" THEN u ELSE r.owner_id,
            !.storage_path = IF r.is_directory THEN r.storage_path
                             ELSE ContentKey(r.tenant_id,
                                             IF target_visibility = "private"
                                             THEN NULL ELSE r.department_id,
                                             r.content_hash)]

\* SET parent_path, visibility, owner_id = CASE WHEN visibility = 'private' ...
Moved(r, u, path, target_visibility) ==
  [r EXCEPT !.parent_path = path,
            !.visibility = target_visibility,
            !.owner_id = IF target_visibility = "private" THEN u ELSE r.owner_id]

\* UPDATE of the moved row itself.
MoveRow(f, fid, u, new_parent_path, target_dept_id, target_visibility) ==
  [f EXCEPT ![fid] = [Moved(f[fid], u, new_parent_path, target_visibility)
                        EXCEPT !.department_id = target_dept_id]]

\* UPDATE ... WHERE tenant_id = $3 AND parent_path = old_path AND is_deleted = false
MoveDirectChildren(f, tenant_id, u, old_path, new_path, target_visibility) ==
  [i \in DOMAIN f |->
     IF /\ f[i].present /\ f[i].tenant_id = tenant_id
        /\ f[i].parent_path = old_path /\ ~f[i].is_deleted
     THEN Moved(f[i], u, new_path, target_visibility)
     ELSE f[i]]

\* UPDATE ... WHERE tenant_id = $4 AND parent_path LIKE old_path || '/%' AND is_deleted = false
MoveNestedChildren(f, tenant_id, u, old_path, new_path, target_visibility) ==
  [i \in DOMAIN f |->
     IF /\ f[i].present /\ f[i].tenant_id = tenant_id
        /\ IsUnder(f[i].parent_path, old_path)
        /\ f[i].parent_path # old_path /\ ~f[i].is_deleted
     THEN Moved(f[i], u, Rebase(f[i].parent_path, old_path, new_path), target_visibility)
     ELSE f[i]]

\* The whole handler in one step; a rejected request changes nothing.
MoveFile(u, tenant_id, fid, target_parent, target_dept, target_vis) ==
  /\ MoveAccepted(files, u, tenant_id, fid, target_parent, target_dept)
  /\ LET row == files[fid]
         target_visibility == TargetVisibility(row, target_vis)
         new_parent_path == NewParentPath(files, target_parent)
         old_path == FolderPath(row)
         new_path == Append(new_parent_path, row.name)
         f1 == MoveRow(files, fid, u, new_parent_path, TargetDept(row, target_dept),
                       target_visibility)
         f2 == MoveDirectChildren(f1, tenant_id, u, old_path, new_path, target_visibility)
         f3 == MoveNestedChildren(f2, tenant_id, u, old_path, new_path, target_visibility)
     IN files' = IF row.is_directory THEN f3 ELSE f1
  /\ UNCHANGED <<nextId, storage, puts, versioning, req, started, shares, served, temp_dir, permits, file_groups, automation_jobs, redis, sched, upload_count>>

\* ------------------------------------- rename_file and move_file, by statement
\* The handlers run their statements on the pool one by one, outside any
\* transaction: each UPDATE is a step of its own, and each can fail, which ends
\* the request with 500 and leaves the earlier statements in place.
\* descendants: the rows under the folder when the request starts.
Descendants(f, tenant_id, folder_path) ==
  {i \in Rows(f) : f[i].tenant_id = tenant_id /\ IsUnder(f[i].parent_path, folder_path)}

RenameStart(p, u, tenant_id, fid, new_filename) ==
  /\ req[p].pc = "idle"
  /\ RenameAccepted(files, u, tenant_id, fid, new_filename)
  /\ req' = [req EXCEPT ![p] =
       [IdleReq EXCEPT !.op = "rename", !.pc = "rename_row", !.user = u, !.tenant = tenant_id,
                       !.file_id = fid, !.file_name = new_filename,
                       !.is_directory = files[fid].is_directory,
                       !.old_path = FolderPath(files[fid]),
                       !.new_path = Append(files[fid].parent_path, new_filename),
                       !.descendants = IF files[fid].is_directory
                                       THEN Descendants(files, tenant_id, FolderPath(files[fid]))
                                       ELSE {}]]
  /\ started' = started + 1
  /\ UNCHANGED <<files, nextId, storage, puts, versioning, shares, served, temp_dir, permits, file_groups, automation_jobs, redis, sched, upload_count>>

RenameRowStep(p) ==
  /\ req[p].pc = "rename_row"
  /\ LET r == req[p]
     IN \/ /\ files' = RenameRow(files, r.file_id, r.file_name)
           /\ req' = [req EXCEPT ![p] = IF r.is_directory
                                        THEN [r EXCEPT !.pc = "rename_direct"]
                                        ELSE Finish(r, "OK")]
        \/ /\ req' = [req EXCEPT ![p] = Finish(r, "INTERNAL_SERVER_ERROR")]
           /\ UNCHANGED files
  /\ UNCHANGED <<nextId, storage, puts, versioning, started, shares, served, temp_dir, permits, file_groups, automation_jobs, redis, sched, upload_count>>

RenameDirectStep(p) ==
  /\ req[p].pc = "rename_direct"
  /\ LET r == req[p]
     IN \/ /\ files' = RenameDirectChildren(files, r.tenant, r.old_path, r.new_path)
           /\ req' = [req EXCEPT ![p] = [r EXCEPT !.pc = "rename_nested"]]
        \/ /\ req' = [req EXCEPT ![p] = Finish(r, "INTERNAL_SERVER_ERROR")]
           /\ UNCHANGED files
  /\ UNCHANGED <<nextId, storage, puts, versioning, started, shares, served, temp_dir, permits, file_groups, automation_jobs, redis, sched, upload_count>>

RenameNestedStep(p) ==
  /\ req[p].pc = "rename_nested"
  /\ LET r == req[p]
     IN \/ /\ files' = RenameNestedChildren(files, r.tenant, r.old_path, r.new_path)
           /\ req' = [req EXCEPT ![p] = Finish(r, "OK")]
        \/ /\ req' = [req EXCEPT ![p] = Finish(r, "INTERNAL_SERVER_ERROR")]
           /\ UNCHANGED files
  /\ UNCHANGED <<nextId, storage, puts, versioning, started, shares, served, temp_dir, permits, file_groups, automation_jobs, redis, sched, upload_count>>

MoveStart(p, u, tenant_id, fid, target_parent, target_dept, target_vis) ==
  /\ req[p].pc = "idle"
  /\ MoveAccepted(files, u, tenant_id, fid, target_parent, target_dept)
  /\ req' = [req EXCEPT ![p] =
       [IdleReq EXCEPT !.op = "move", !.pc = "move_row", !.user = u, !.tenant = tenant_id,
                       !.file_id = fid,
                       !.is_directory = files[fid].is_directory,
                       !.parent_path = NewParentPath(files, target_parent),
                       !.target_dept_id = TargetDept(files[fid], target_dept),
                       !.visibility = TargetVisibility(files[fid], target_vis),
                       !.old_path = FolderPath(files[fid]),
                       !.new_path = Append(NewParentPath(files, target_parent), files[fid].name),
                       !.descendants = IF files[fid].is_directory
                                       THEN Descendants(files, tenant_id, FolderPath(files[fid]))
                                       ELSE {}]]
  /\ started' = started + 1
  /\ UNCHANGED <<files, nextId, storage, puts, versioning, shares, served, temp_dir, permits, file_groups, automation_jobs, redis, sched, upload_count>>

MoveRowStep(p) ==
  /\ req[p].pc = "move_row"
  /\ LET r == req[p]
     IN \/ /\ files' = MoveRow(files, r.file_id, r.user, r.parent_path, r.target_dept_id,
                               r.visibility)
           /\ req' = [req EXCEPT ![p] = IF r.is_directory
                                        THEN [r EXCEPT !.pc = "move_direct"]
                                        ELSE Finish(r, "OK")]
        \/ /\ req' = [req EXCEPT ![p] = Finish(r, "INTERNAL_SERVER_ERROR")]
           /\ UNCHANGED files
  /\ UNCHANGED <<nextId, storage, puts, versioning, started, shares, served, temp_dir, permits, file_groups, automation_jobs, redis, sched, upload_count>>

MoveDirectStep(p) ==
  /\ req[p].pc = "move_direct"
  /\ LET r == req[p]
     IN \/ /\ files' = MoveDirectChildren(files, r.tenant, r.user, r.old_path, r.new_path,
                                          r.visibility)
           /\ req' = [req EXCEPT ![p] = [r EXCEPT !.pc = "move_nested"]]
        \/ /\ req' = [req EXCEPT ![p] = Finish(r, "INTERNAL_SERVER_ERROR")]
           /\ UNCHANGED files
  /\ UNCHANGED <<nextId, storage, puts, versioning, started, shares, served, temp_dir, permits, file_groups, automation_jobs, redis, sched, upload_count>>

MoveNestedStep(p) ==
  /\ req[p].pc = "move_nested"
  /\ LET r == req[p]
     IN \/ /\ files' = MoveNestedChildren(files, r.tenant, r.user, r.old_path, r.new_path,
                                          r.visibility)
           /\ req' = [req EXCEPT ![p] = Finish(r, "OK")]
        \/ /\ req' = [req EXCEPT ![p] = Finish(r, "INTERNAL_SERVER_ERROR")]
           /\ UNCHANGED files
  /\ UNCHANGED <<nextId, storage, puts, versioning, started, shares, served, temp_dir, permits, file_groups, automation_jobs, redis, sched, upload_count>>

\* ------------------------------------------------------- permanent_delete
RECURSIVE SeqOfIds(_)
SeqOfIds(S) ==
  IF S = {} THEN <<>>
  ELSE LET m == CHOOSE x \in S : \A y \in S : x <= y
       IN <<m>> \o SeqOfIds(S \ {m})

\* files_to_delete: the row, then (for a folder) its trashed descendants.
FilesToDelete(f, fid, tenant_id) ==
  LET row == f[fid]
      children == IF row.is_directory
                  THEN {i \in Rows(f) : /\ f[i].tenant_id = tenant_id
                                        /\ f[i].is_deleted
                                        /\ IsUnder(f[i].parent_path, FolderPath(row))}
                  ELSE {}
      \* (id, content_hash, storage_path); scope_dept is not read by the handler: it
      \* remembers the scope of the deleted row for the properties below.
      Item(i) == [fid |-> i, fhash |-> f[i].content_hash, fstorage |-> f[i].storage_path,
                  scope_dept |-> f[i].department_id]
  IN <<Item(fid)>> \o [k \in 1 .. Cardinality(children) |-> Item(SeqOfIds(children)[k])]

\* Tenant check and the lookup of the trashed row.
PermanentDeleteStart(p, u, tenant_id, fid) ==
  /\ req[p].pc = "idle"
  /\ ~TenantAccessDenied(u, tenant_id)
  /\ TrashRowFound(files, fid, tenant_id)
  /\ req' = [req EXCEPT ![p] =
               [IdleReq EXCEPT !.op = "permanent_delete", !.pc = "count", !.user = u,
                               !.tenant = tenant_id, !.file_id = fid,
                               !.todo = FilesToDelete(files, fid, tenant_id)]]
  /\ UNCHANGED <<files, nextId, storage, puts, versioning, started, shares, served, temp_dir, permits, file_groups, automation_jobs, redis, sched, upload_count>>

\* SELECT COUNT(*) ... WHERE content_hash = $1 AND id != $2 AND is_directory = false
RefCount(f, hash, fid) ==
  Cardinality({i \in Rows(f) : /\ f[i].content_hash = hash
                               /\ i # fid
                               /\ ~f[i].is_directory})

should_delete_storage(f, item) ==
  IF item.fhash # NoKey
  THEN RefCount(f, item.fhash, item.fid) = 0
  ELSE FALSE

\* query_scalar(...).fetch_one(pool).await.unwrap_or(0): the count the
\* database answers, or 0 when the query fails.
ref_count(f, item, answered) ==
  IF answered THEN RefCount(f, item.fhash, item.fid) ELSE 0

\* count_failed is not read by the handler: it remembers for the properties
\* below that the count of the current item is the default of a failed query.
PermanentDeleteCountFrom(p, answered) ==
  /\ req[p].pc = "count"
  /\ LET r == req[p]
         item == Head(r.todo)
     IN req' = [req EXCEPT ![p] =
                  [r EXCEPT !.pc = "delete_row",
                            !.count_failed = (item.fhash # NoKey /\ ~answered),
                            !.should_delete_storage =
                               IF item.fhash # NoKey
                               THEN ~(ref_count(files, item, answered) > 0)
                               ELSE FALSE]]
  /\ UNCHANGED <<files, nextId, storage, puts, versioning, started, shares, served, temp_dir, permits, file_groups, automation_jobs, redis, sched, upload_count>>

\* The count query answers.
PermanentDeleteCount(p) == PermanentDeleteCountFrom(p, TRUE)

\* After one item: the next item, or the response.
NextItem(r) ==
  IF Len(r.todo) > 1
  THEN [r EXCEPT !.pc = "count", !.todo = Tail(r.todo)]
  ELSE Finish([r EXCEPT !.todo = <<>>], "OK")

\* DELETE FROM files_metadata WHERE id = $1 AND tenant_id = $2
PermanentDeleteRow(p) ==
  /\ req[p].pc = "delete_row"
  /\ LET r == req[p]
         item == Head(r.todo)
     IN /\ files' = IF item.fid \in Rows(files) /\ files[item.fid].tenant_id = r.tenant
                    THEN [files EXCEPT ![item.fid] = NoRow]
                    ELSE files
        /\ req' = [req EXCEPT ![p] =
                     IF r.should_delete_storage /\ item.fstorage # NoKey
                     THEN [r EXCEPT !.pc = "delete_storage"]
                     ELSE NextItem(r)]
  /\ UNCHANGED <<nextId, storage, puts, versioning, started, shares, served, temp_dir, permits, file_groups, automation_jobs, redis, sched, upload_count>>

\* storage.delete(fstorage): an error is logged and the request goes on.
PermanentDeleteStorage(p) ==
  /\ req[p].pc = "delete_storage"
  /\ LET r == req[p]
         item == Head(r.todo)
     IN \/ /\ storage' = storage \ {item.fstorage}
           /\ req' = [req EXCEPT ![p] =
                        NextItem([r EXCEPT !.storage_deleted_count = r.storage_deleted_count + 1])]
        \/ /\ storage' = storage
           /\ req' = [req EXCEPT ![p] = NextItem(r)]
  /\ UNCHANGED <<files, nextId, puts, versioning, started, shares, served, temp_dir, permits, file_groups, automation_jobs, redis, sched, upload_count>>

\* ------------------------------------------------- storage specification
Init ==
  /\ files = [i \in FileIds |-> NoRow]
  /\ nextId = 1
  /\ storage = {}
  /\ puts = 0
  /\ versioning \in BOOLEAN
  /\ req = [p \in Procs |-> IdleReq]
  /\ started = 0
  /\ shares = <<>>
  /\ served = NoResponse
  /\ temp_dir = [p \in Procs |-> 0]
  /\ permits = 0
  /\ file_groups = GroupCatalog
  /\ automation_jobs = JobCatalog
  /\ redis = {}
  /\ sched = [s \in Schedulers |-> IdleScheduler]
  /\ upload_count = [fr \in FileRequests |-> 0]

Next ==
  \/ \E p \in Procs, u \in CasUsers, c \in Contents, v \in Visibilities :
       UploadStart(p, u, "T1", NameA, c, v)
  \/ \E p \in Procs : UploadProbeName(p)
  \/ \E p \in Procs : UploadProbeContent(p)
  \/ \E p \in Procs : UploadPut(p)
  \/ \E p \in Procs : UploadMarkImmutable(p)
  \/ \E p \in Procs : UploadInsert(p)
  \/ \E p \in Procs : Return(p)
  \/ \E u \in CasUsers, fid \in FileIds : DeleteFile(u, "T1", fid)
  \/ \E u \in CasUsers, fid \in FileIds : RestoreFile(u, "T1", fid)
  \/ \E u \in CasUsers, fid \in FileIds : RenameFile(u, "T1", fid, NameB)
  \/ \E u \in CasUsers, fid \in FileIds, v \in Visibilities :
       MoveFile(u, "T1", fid, NoId, "keep", v)
  \/ \E p \in Procs, u \in CasUsers, fid \in FileIds : PermanentDeleteStart(p, u, "T1", fid)
  \/ \E p \in Procs : PermanentDeleteCount(p)
  \/ \E p \in Procs : PermanentDeleteRow(p)
  \/ \E p \in Procs : PermanentDeleteStorage(p)

Spec == Init /\ [][Next]_vars

\* Uploads alone, two at a time.
NextUpload ==
  \/ \E p \in Procs, u \in CasUsers, c \in Contents, v \in Visibilities :
       UploadStart(p, u, "T1", NameA, c, v)
  \/ \E p \in Procs : UploadProbeName(p)
  \/ \E p \in Procs : UploadProbeContent(p)
  \/ \E p \in Procs : UploadPut(p)
  \/ \E p \in Procs : UploadMarkImmutable(p)
  \/ \E p \in Procs : UploadInsert(p)
  \/ \E p \in Procs : Return(p)

SpecUpload == Init /\ [][NextUpload]_vars

\* One request at a time: a handler runs to its response before the next starts.
Quiet == \A p \in Procs : req[p].pc = "idle"

NextSeq ==
  \/ \E u \in CasUsers, c \in Contents, v \in Visibilities :
       Quiet /\ UploadStart("p1", u, "T1", NameA, c, v)
  \/ UploadProbeName("p1")
  \/ UploadProbeContent("p1")
  \/ UploadPut("p1")
  \/ UploadMarkImmutable("p1")
  \/ UploadInsert("p1")
  \/ Return("p1")
  \/ \E u \in CasUsers, fid \in FileIds : Quiet /\ DeleteFile(u, "T1", fid)
  \/ \E u \in CasUsers, fid \in FileIds : Quiet /\ RestoreFile(u, "T1", fid)
  \/ \E u \in CasUsers, fid \in FileIds : Quiet /\ RenameFile(u, "T1", fid, NameB)
  \/ \E u \in CasUsers, fid \in FileIds, v \in Visibilities :
       Quiet /\ MoveFile(u, "T1", fid, NoId, "keep", v)
  \/ \E u \in CasUsers, fid \in FileIds : Quiet /\ PermanentDeleteStart("p1", u, "T1", fid)
  \/ PermanentDeleteCount("p1")
  \/ PermanentDeleteRow("p1")
  \/ PermanentDeleteStorage("p1")

SpecSeq == Init /\ [][NextSeq]_vars

\* One request at a time, with a database that may fail the count query of
\* permanent_delete.
NextPurge ==
  \/ \E u \in CasUsers, c \in Contents, v \in Visibilities :
       Quiet /\ UploadStart("p1", u, "T1", NameA, c, v)
  \/ UploadProbeName("p1")
  \/ UploadProbeContent("p1")
  \/ UploadPut("p1")
  \/ UploadMarkImmutable("p1")
  \/ UploadInsert("p1")
  \/ Return("p1")
  \/ \E u \in CasUsers, fid \in FileIds : Quiet /\ DeleteFile(u, "T1", fid)
  \/ \E u \in CasUsers, fid \in FileIds : Quiet /\ PermanentDeleteStart("p1", u, "T1", fid)
  \/ \E answered \in BOOLEAN : PermanentDeleteCountFrom("p1", answered)
  \/ PermanentDeleteRow("p1")
  \/ PermanentDeleteStorage("p1")

SpecPurge == Init /\ [][NextPurge]_vars

\* Uploads with the body read chunk by chunk, one request at a time.
NextStream ==
  \/ \E u \in CasUsers, c \in Contents, chunks \in 1..MaxChunks :
       Quiet /\ UploadOpen("p1", u, "T1", NameA, c, "department", chunks)
  \/ UploadChunk("p1")
  \/ UploadFlush("p1")
  \/ UploadLimits("p1")
  \/ UploadProbeName("p1")
  \/ UploadProbeContent("p1")
  \/ UploadPut("p1")
  \/ UploadMarkImmutable("p1")
  \/ UploadInsert("p1")
  \/ Return("p1")

SpecStream == Init /\ [][NextStream]_vars

\* The ingest paths, one request at a time: authenticated uploads and uploads
\* to a file request.
NextIngest ==
  \/ \E u \in CasUsers \cup {"adm"}, c \in Contents, v \in Visibilities :
       Quiet /\ UploadStart("p1", u, "T1", NameA, c, v)
  \/ UploadProbeName("p1")
  \/ UploadProbeContent("p1")
  \/ UploadPut("p1")
  \/ UploadMarkImmutable("p1")
  \/ UploadInsert("p1")
  \/ \E fr \in FileRequests, c \in Contents, chunks \in 1..MaxChunks :
       Quiet /\ PublicUploadOpen("p1", fr, NameA, c, chunks)
  \/ PublicUploadChunk("p1")
  \/ PublicUploadPut("p1")
  \/ PublicUploadInsert("p1")
  \/ Return("p1")

SpecIngest == Init /\ [][NextIngest]_vars

\* ------------------------------------------------------------- file locks
\* role_hierarchy of unlock_file, role_level of can_access_locked_group.
role_level(role) ==
  CASE role = "SuperAdmin" -> 100
    [] role = "Admin"      -> 80
    [] role = "Manager"    -> 60
    [] role = "Employee"   -> 40
    [] OTHER               -> 20

\* The lock gate of file groups.
can_access_locked_group(user_id, user_role, is_locked, locked_by, owner_id, lock_requires_role) ==
  IF ~is_locked THEN TRUE
  ELSE IF owner_id = user_id THEN TRUE
  ELSE IF locked_by = user_id THEN TRUE
  ELSE IF user_role = "SuperAdmin" THEN TRUE
  ELSE IF lock_requires_role # NULL
       THEN role_level(user_role) >= role_level(lock_requires_role)
  ELSE FALSE

\* The roles a lock request may name, and no role at all.
RequiredRoles == {NULL, "Employee", "Manager", "Admin", "SuperAdmin"}

\* The roles table: tenant T1 has one custom role, "Auditor", that carries the
\* permission token files.unlock.
roles ==
  {[tenant_id |-> "T1", name |-> "Auditor", permissions |-> {"files.unlock"}]}

\* SELECT EXISTS(SELECT 1 FROM roles r WHERE r.tenant_id = $1 AND r.name = $2
\*               AND r.permissions @> $3)
custom_role_has_perm(tenant_id, user_role, perm) ==
  \E r \in roles : r.tenant_id = tenant_id /\ r.name = user_role /\ perm \in r.permissions

has_lock_permission(tenant_id, user_role) ==
  \/ user_role \in {"SuperAdmin", "Admin", "Manager"}
  \/ custom_role_has_perm(tenant_id, user_role, "files.lock")

LockFile(u, tenant_id, fid, has_password, required_role) ==
  /\ ~TenantAccessDenied(u, tenant_id)
  /\ can_access_file(files, fid, tenant_id, u, UserTable[u].role, "write") = "true"
  /\ has_lock_permission(tenant_id, UserTable[u].role)
  /\ AccessRowFound(files, fid, tenant_id)
  /\ ~files[fid].is_locked
  /\ Cardinality({i \in Rows(files) : files[i].is_locked}) < MaxLocked
  /\ files' = [files EXCEPT ![fid].is_locked = TRUE,
                            ![fid].locked_by = u, ![fid].locked_at = "NOW",
                            ![fid].lock_has_password = has_password,
                            ![fid].lock_requires_role = required_role]
  /\ UNCHANGED <<nextId, storage, puts, versioning, req, started, shares, served, temp_dir, permits, file_groups, automation_jobs, redis, sched, upload_count>>

can_unlock(row, u) ==
  LET user_role == UserTable[u].role
  IN IF row.owner_id = u THEN TRUE
     ELSE IF row.locked_by = u THEN TRUE
     ELSE IF user_role = "SuperAdmin" THEN TRUE
     ELSE IF row.lock_requires_role # NULL
          THEN \/ role_level(user_role) >= role_level(row.lock_requires_role)
               \/ custom_role_has_perm(row.tenant_id, user_role, "files.unlock")
     ELSE user_role \in {"SuperAdmin", "Admin"}

\* password: "none" (not sent), "right" or "wrong".
UnlockFile(u, tenant_id, fid, password) ==
  /\ ~TenantAccessDenied(u, tenant_id)
  /\ can_access_file(files, fid, tenant_id, u, UserTable[u].role, "write") = "true"
  /\ AccessRowFound(files, fid, tenant_id)
  /\ files[fid].is_locked
  /\ can_unlock(files[fid], u)
  /\ files[fid].lock_has_password => password = "right"
  /\ files' = [files EXCEPT ![fid].is_locked = FALSE,
                            ![fid].locked_by = NULL, ![fid].locked_at = NULL,
                            ![fid].lock_has_password = FALSE,
                            ![fid].lock_requires_role = NULL]
  /\ UNCHANGED <<nextId, storage, puts, versioning, req, started, shares, served, temp_dir, permits, file_groups, automation_jobs, redis, sched, upload_count>>

\* ---------------------------------- lock_file and unlock_file, by statement
\* The checks of lock_file up to the SELECT of is_locked: a locked row is
\* answered "File is already locked"; otherwise the UPDATE follows.
LockStart(p, u, tenant_id, fid, has_password, required_role) ==
  /\ req[p].pc = "idle"
  /\ ~TenantAccessDenied(u, tenant_id)
  /\ can_access_file(files, fid, tenant_id, u, UserTable[u].role, "write") = "true"
  /\ has_lock_permission(tenant_id, UserTable[u].role)
  /\ AccessRowFound(files, fid, tenant_id)
  /\ Cardinality({i \in Rows(files) : files[i].is_locked}) < MaxLocked \/ files[fid].is_locked
  /\ LET r == [IdleReq EXCEPT !.op = "lock", !.user = u, !.tenant = tenant_id, !.file_id = fid,
                              !.has_password = has_password, !.required_role = required_role]
     IN req' = [req EXCEPT ![p] = IF files[fid].is_locked
                                  THEN Finish(r, "ALREADY_LOCKED")
                                  ELSE [r EXCEPT !.pc = "lock_update"]]
  /\ UNCHANGED <<files, nextId, storage, puts, versioning, started, shares, served, temp_dir, permits, file_groups, automation_jobs, redis, sched, upload_count>>

\* UPDATE files_metadata SET is_locked = true, locked_by = $1, ... WHERE id = $2
LockUpdate(p) ==
  /\ req[p].pc = "lock_update"
  /\ LET r == req[p]
     IN \/ /\ files' = IF r.file_id \in Rows(files)
                       THEN [files EXCEPT ![r.file_id].is_locked = TRUE,
                                          ![r.file_id].locked_by = r.user,
                                          ![r.file_id].locked_at = "NOW",
                                          ![r.file_id].lock_has_password = r.has_password,
                                          ![r.file_id].lock_requires_role = r.required_role]
                       ELSE files
           /\ req' = [req EXCEPT ![p] = Finish(r, "OK")]
        \/ /\ req' = [req EXCEPT ![p] = Finish(r, "INTERNAL_SERVER_ERROR")]
           /\ UNCHANGED files
  /\ UNCHANGED <<nextId, storage, puts, versioning, started, shares, served, temp_dir, permits, file_groups, automation_jobs, redis, sched, upload_count>>

\* The checks of unlock_file: an unlocked row is answered "File is not locked";
\* then the role test and the password test, each with its own answer.
UnlockStart(p, u, tenant_id, fid, password) ==
  /\ req[p].pc = "idle"
  /\ ~TenantAccessDenied(u, tenant_id)
  /\ can_access_file(files, fid, tenant_id, u, UserTable[u].role, "write") = "true"
  /\ AccessRowFound(files, fid, tenant_id)
  /\ LET r == [IdleReq EXCEPT !.op = "unlock", !.user = u, !.tenant = tenant_id,
                              !.file_id = fid, !.password = password]
     IN req' = [req EXCEPT ![p] =
          IF ~files[fid].is_locked THEN Finish(r, "NOT_LOCKED")
          ELSE IF ~can_unlock(files[fid], u) THEN Finish(r, "INSUFFICIENT_PERMISSIONS")
          ELSE IF files[fid].lock_has_password /\ password = "none"
               THEN Finish(r, "PASSWORD_REQUIRED")
          ELSE IF files[fid].lock_has_password /\ password # "right"
               THEN Finish(r, "INCORRECT_PASSWORD")
          ELSE [r EXCEPT !.pc = "unlock_update"]]
  /\ UNCHANGED <<files, nextId, storage, puts, versioning, started, shares, served, temp_dir, permits, file_groups, automation_jobs, redis, sched, upload_count>>

\* An UPDATE that clears is_locked and leaves the other lock columns.
UnlockUpdate_flag_only(p) ==
  /\ req[p].pc = "unlock_update"
  /\ LET r == req[p]
     IN /\ files' = [files EXCEPT ![r.file_id].is_locked = FALSE]
        /\ req' = [req EXCEPT ![p] = Finish(r, "OK")]
  /\ UNCHANGED <<nextId, storage, puts, versioning, started, shares, served, temp_dir, permits, file_groups, automation_jobs, redis, sched, upload_count>>

\* UPDATE files_metadata SET is_locked = false, locked_by = NULL, ... WHERE id = $1
UnlockUpdate(p) ==
  /\ req[p].pc = "unlock_update"
  /\ LET r == req[p]
     IN \/ /\ files' = IF r.file_id \in Rows(files)
                       THEN [files EXCEPT ![r.file_id].is_locked = FALSE,
                                          ![r.file_id].locked_by = NULL,
                                          ![r.file_id].locked_at = NULL,
                                          ![r.file_id].lock_has_password = FALSE,
                                          ![r.file_id].lock_requires_role = NULL]
                       ELSE files
           /\ req' = [req EXCEPT ![p] = Finish(r, "OK")]
        \/ /\ req' = [req EXCEPT ![p] = Finish(r, "INTERNAL_SERVER_ERROR")]
           /\ UNCHANGED files
  /\ UNCHANGED <<nextId, storage, puts, versioning, started, shares, served, temp_dir, permits, file_groups, automation_jobs, redis, sched, upload_count>>

\* -------------------------------- lock_group and unlock_group, by statement
GroupFound(g, gid, tenant_id) == gid \in DOMAIN g /\ g[gid].tenant_id = tenant_id

\* The checks of lock_group up to the SELECT of is_locked.
LockGroupStart(p, u, tenant_id, gid, has_password, required_role) ==
  /\ req[p].pc = "idle"
  /\ ~TenantAccessDenied(u, tenant_id)
  /\ has_lock_permission(tenant_id, UserTable[u].role)
  /\ GroupFound(file_groups, gid, tenant_id)
  /\ LET r == [IdleReq EXCEPT !.op = "lock_group", !.user = u, !.tenant = tenant_id,
                              !.file_id = gid, !.has_password = has_password,
                              !.required_role = required_role]
     IN req' = [req EXCEPT ![p] = IF file_groups[gid].is_locked
                                  THEN Finish(r, "ALREADY_LOCKED")
                                  ELSE [r EXCEPT !.pc = "lock_group_update"]]
  /\ UNCHANGED <<files, nextId, storage, puts, versioning, started, shares, served, temp_dir, permits, file_groups, automation_jobs, redis, sched, upload_count>>

\* UPDATE file_groups SET is_locked = true, locked_by = $1, ... WHERE id = $2
LockGroupUpdate(p) ==
  /\ req[p].pc = "lock_group_update"
  /\ LET r == req[p]
     IN \/ /\ file_groups' = [file_groups EXCEPT ![r.file_id].is_locked = TRUE,
                                                 ![r.file_id].locked_by = r.user,
                                                 ![r.file_id].locked_at = "NOW",
                                                 ![r.file_id].lock_has_password = r.has_password,
                                                 ![r.file_id].lock_requires_role = r.required_role]
           /\ req' = [req EXCEPT ![p] = Finish(r, "OK")]
        \/ /\ req' = [req EXCEPT ![p] = Finish(r, "INTERNAL_SERVER_ERROR")]
           /\ UNCHANGED file_groups
  /\ UNCHANGED <<files, nextId, storage, puts, versioning, started, shares, served, temp_dir, permits, automation_jobs, redis, sched, upload_count>>

\* can_unlock of unlock_group: the group's creator stands where the file's
\* owner stands in unlock_file.
can_unlock_group(g, u) ==
  can_unlock([tenant_id |-> g.tenant_id, owner_id |-> g.created_by, locked_by |-> g.locked_by,
              lock_requires_role |-> g.lock_requires_role], u)

\* The checks of unlock_group; a password that was not sent is verified as the
\* empty password.
UnlockGroupStart(p, u, tenant_id, gid, password) ==
  /\ req[p].pc = "idle"
  /\ ~TenantAccessDenied(u, tenant_id)
  /\ GroupFound(file_groups, gid, tenant_id)
  /\ LET r == [IdleReq EXCEPT !.op = "unlock_group", !.user = u, !.tenant = tenant_id,
                              !.file_id = gid, !.password = password]
         g == file_groups[gid]
     IN req' = [req EXCEPT ![p] =
          IF ~g.is_locked THEN Finish(r, "NOT_LOCKED")
          ELSE IF ~can_unlock_group(g, u) THEN Finish(r, "INSUFFICIENT_PERMISSIONS")
          ELSE IF g.lock_has_password /\ password # "right"
               THEN Finish(r, "INCORRECT_PASSWORD")
          ELSE [r EXCEPT !.pc = "unlock_group_update"]]
  /\ UNCHANGED <<files, nextId, storage, puts, versioning, started, shares, served, temp_dir, permits, file_groups, automation_jobs, redis, sched, upload_count>>

\* UPDATE file_groups SET is_locked = false, locked_by = NULL, ... WHERE id = $1
UnlockGroupUpdate(p) ==
  /\ req[p].pc = "unlock_group_update"
  /\ LET r == req[p]
     IN \/ /\ file_groups' = [file_groups EXCEPT ![r.file_id].is_locked = FALSE,
                                                 ![r.file_id].locked_by = NULL,
                                                 ![r.file_id].locked_at = NULL,
                                                 ![r.file_id].lock_has_password = FALSE,
                                                 ![r.file_id].lock_requires_role = NULL]
           /\ req' = [req EXCEPT ![p] = Finish(r, "OK")]
        \/ /\ req' = [req EXCEPT ![p] = Finish(r, "INTERNAL_SERVER_ERROR")]
           /\ UNCHANGED file_groups
  /\ UNCHANGED <<files, nextId, storage, puts, versioning, started, shares, served, temp_dir, permits, automation_jobs, redis, sched, upload_count>>

\* ---------------------------------------------------------------- downloads
\* The rows download_folder_as_zip and download_shared_folder_as_zip pack: every
\* live file of the tenant under the folder's path whose object the backend
\* returns; a file whose download fails is skipped.
PackedRows(f, st, tenant_id, folder_name, parent_path) ==
  LET folder_path == Append(parent_path, folder_name)
  IN {i \in LiveRows(f) : /\ f[i].tenant_id = tenant_id
                          /\ ~f[i].is_directory
                          /\ IsUnder(f[i].parent_path, folder_path)
                          /\ f[i].storage_path \in st}

download_folder_as_zip(f, st, tenant_id, folder_name, parent_path) ==
  PackedRows(f, st, tenant_id, folder_name, parent_path)

download_shared_folder_as_zip(f, st, tenant_id, folder_name, parent_path) ==
  PackedRows(f, st, tenant_id, folder_name, parent_path)

Response(via, u, fid, token, status, rows) ==
  [via |-> via, user |-> u, target |-> fid, token |-> token, status |-> status, rows |-> rows]

\* GET /api/download/{company_id}/{file_id}; readable: the keys whose object
\* state.storage.download returns, the others end in Err.
DownloadFileFrom(u, tenant_id, fid, readable) ==
  /\ served = NoResponse
  /\ LET decision == can_access_file(files, fid, tenant_id, u, UserTable[u].role, "read")
     IN served' =
          IF decision = "NOT_FOUND" THEN Response("download", u, fid, NoId, "NOT_FOUND", {})
          ELSE IF decision = "false" THEN Response("download", u, fid, NoId, "FORBIDDEN", {})
          ELSE IF ~AccessRowFound(files, fid, tenant_id)
               THEN Response("download", u, fid, NoId, "NOT_FOUND", {})
          ELSE IF files[fid].is_directory
               THEN Response("download", u, fid, NoId, "OK",
                             download_folder_as_zip(files, readable, tenant_id,
                                                    files[fid].name, files[fid].parent_path))
          ELSE IF files[fid].storage_path \in readable
               THEN Response("download", u, fid, NoId, "OK", {fid})
          ELSE Response("download", u, fid, NoId, "NOT_FOUND", {})
  /\ UNCHANGED <<files, nextId, storage, puts, versioning, req, started, shares, temp_dir, permits, file_groups, automation_jobs, redis, sched, upload_count>>

DownloadFile(u, tenant_id, fid) == DownloadFileFrom(u, tenant_id, fid, storage)

\* ------------------------------------------------------------------ shares
SharePolicies == {"permissioned", "tenant_wide"}

\* The token of a share is its position in file_shares.
CreateFileShare(u, tenant_id, fid, is_public, expires, share_policy, public_sharing_blocked) ==
  /\ Len(shares) < MaxShares
  /\ ~TenantAccessDenied(u, tenant_id)
  /\ can_access_file(files, fid, tenant_id, u, UserTable[u].role, "share") = "true"
  /\ AccessRowFound(files, fid, tenant_id)
  /\ ~(is_public /\ public_sharing_blocked)
  /\ shares' = Append(shares,
                 [file_id |-> fid, tenant_id |-> tenant_id, created_by |-> u,
                  is_public |-> is_public,
                  expires_at |-> IF expires THEN "future" ELSE NULL,
                  is_directory |-> files[fid].is_directory,
                  share_policy |-> IF share_policy = "tenant_wide" THEN "tenant_wide"
                                   ELSE "permissioned",
                  download_count |-> 0])
  /\ UNCHANGED <<files, nextId, storage, puts, versioning, req, started, served, temp_dir, permits, file_groups, automation_jobs, redis, sched, upload_count>>

\* The clock passes the expiry time of a share.
ShareExpires(token) ==
  /\ token \in DOMAIN shares
  /\ shares[token].expires_at = "future"
  /\ shares' = [shares EXCEPT ![token].expires_at = "past"]
  /\ UNCHANGED <<files, nextId, storage, puts, versioning, req, started, served, temp_dir, permits, file_groups, automation_jobs, redis, sched, upload_count>>

\* The Authorization header of a redemption: absent, a token verify_token
\* rejects, or the token of a user.
Bearers == {"absent", "invalid"} \cup Users

\* The credential block of download_shared_file: "ok" or the rejection.
ShareAuth(f, share, bearer) ==
  IF share.is_public THEN "ok"
  ELSE IF bearer = "absent" \/ bearer = "invalid" THEN "UNAUTHORIZED"
  ELSE IF UserTable[bearer].tenant_id # share.tenant_id THEN "FORBIDDEN"
  ELSE IF share.share_policy = "permissioned"
       THEN LET decision == can_access_file(f, share.file_id, share.tenant_id, bearer,
                                            UserTable[bearer].role, "read")
            IN CASE decision = "true"      -> "ok"
                 [] decision = "false"     -> "FORBIDDEN"
                 [] decision = "NOT_FOUND" -> "NOT_FOUND"
  ELSE "ok"

\* GET /api/share/{token}/download; counted: the UPDATE of download_count
\* succeeded (its result is discarded by `let _ =`, so the handler goes on
\* either way).
DownloadSharedFileDb(token, bearer, counted) ==
  /\ served = NoResponse
  /\ token \in DOMAIN shares
  /\ LET share == shares[token]
         auth == ShareAuth(files, share, bearer)
         fid == share.file_id
     IN IF share.expires_at = "past"
        THEN /\ served' = Response("share", bearer, fid, token, "GONE", {})
             /\ UNCHANGED shares
        ELSE IF auth # "ok"
        THEN /\ served' = Response("share", bearer, fid, token, auth, {})
             /\ UNCHANGED shares
        ELSE IF ~AccessRowFound(files, fid, share.tenant_id)
        THEN /\ served' = Response("share", bearer, fid, token, "NOT_FOUND", {})
             /\ UNCHANGED shares
        ELSE /\ share.download_count < MaxDownloads
             /\ shares' = IF counted
                          THEN [shares EXCEPT ![token].download_count = @ + 1]
                          ELSE shares
             /\ served' =
                  IF share.is_directory
                  THEN Response("share", bearer, fid, token, "OK",
                                download_shared_folder_as_zip(files, storage, share.tenant_id,
                                                              files[fid].name, files[fid].parent_path))
                  ELSE IF files[fid].storage_path = NoKey
                  THEN Response("share", bearer, fid, token, "NOT_FOUND", {})
                  ELSE IF files[fid].storage_path \in storage
                  THEN Response("share", bearer, fid, token, "OK", {fid})
                  ELSE Response("share", bearer, fid, token, "INTERNAL_SERVER_ERROR", {})
  /\ UNCHANGED <<files, nextId, storage, puts, versioning, req, started, temp_dir, permits, file_groups, automation_jobs, redis, sched, upload_count>>

DownloadSharedFile(token, bearer) == DownloadSharedFileDb(token, bearer, TRUE)

\* The response has left; the next read request is taken.
ResponseSent ==
  /\ served # NoResponse
  /\ served' = NoResponse
  /\ UNCHANGED <<files, nextId, storage, puts, versioning, req, started, shares, temp_dir, permits, file_groups, automation_jobs, redis, sched, upload_count>>

\* ------------------------------------------ download_file, by statement
\* The checks of download_file, then either an early answer (denied, missing,
\* a folder packed as a zip, a redirect to a presigned URL) or, on the proxied
\* path, scheduler.acquire_download_permit, which waits for a free permit.
DownloadAcquire(p, u, tenant_id, fid, presigned) ==
  /\ req[p].pc = "idle"
  /\ LET decision == can_access_file(files, fid, tenant_id, u, UserTable[u].role, "read")
         early == IF decision = "NOT_FOUND" THEN "NOT_FOUND"
                  ELSE IF decision = "false" THEN "FORBIDDEN"
                  ELSE IF ~AccessRowFound(files, fid, tenant_id) THEN "NOT_FOUND"
                  ELSE IF files[fid].is_directory THEN "OK"
                  ELSE IF presigned THEN "TEMPORARY_REDIRECT"
                  ELSE "none"
     IN IF early # "none"
        THEN /\ served = NoResponse
             /\ served' = Response("download", u, fid, NoId, early,
                                   IF early = "OK"
                                   THEN download_folder_as_zip(files, storage, tenant_id,
                                                               files[fid].name, files[fid].parent_path)
                                   ELSE {})
             /\ UNCHANGED <<req, permits>>
        ELSE /\ permits < MaxPermits
             /\ permits' = permits + 1
             /\ req' = [req EXCEPT ![p] =
                          [IdleReq EXCEPT !.op = "download", !.pc = "stream", !.user = u,
                                          !.tenant = tenant_id, !.file_id = fid]]
             /\ UNCHANGED served
  /\ UNCHANGED <<files, nextId, storage, puts, versioning, started, shares, temp_dir, file_groups, automation_jobs, redis, sched, upload_count>>

\* storage.download_stream, then the handler returns the response whose body
\* is the stream; transfer_permit is a local of the handler and is dropped as
\* the handler returns. The body is streamed after that, until ResponseSent.
DownloadRespond(p) ==
  /\ req[p].pc = "stream"
  /\ served = NoResponse
  /\ LET r == req[p]
     IN served' = IF files[r.file_id].storage_path \in storage
                  THEN Response("download", r.user, r.file_id, NoId, "OK", {r.file_id})
                  ELSE Response("download", r.user, r.file_id, NoId, "NOT_FOUND", {})
  /\ permits' = permits - 1
  /\ req' = [req EXCEPT ![p] = IdleReq]
  /\ UNCHANGED <<files, nextId, storage, puts, versioning, started, shares, temp_dir, file_groups, automation_jobs, redis, sched, upload_count>>

\* ------------------------------------------------- the read specification
\* A catalog the handlers above build: alice (department D1) created folder F
\* and uploaded a.txt into it; bob (department D2) uploaded the private b.txt
\* with the same parent path; xemp of tenant T2 uploaded a.txt at the root.
FolderF == <<"F">>

ReadCatalog ==
  <<[NoRow EXCEPT !.present = TRUE, !.tenant_id = "T1", !.name = FolderF,
                  !.department_id = "D1", !.owner_id = "alice", !.is_directory = TRUE],
    [NoRow EXCEPT !.present = TRUE, !.tenant_id = "T1", !.name = NameA,
                  !.parent_path = <<FolderF>>, !.department_id = "D1", !.owner_id = "alice",
                  !.content_hash = Blake3Hex(1),
                  !.storage_path = ContentKey("T1", "D1", Blake3Hex(1))],
    [NoRow EXCEPT !.present = TRUE, !.tenant_id = "T1", !.name = NameB,
                  !.parent_path = <<FolderF>>, !.department_id = "D2", !.owner_id = "bob",
                  !.visibility = "private", !.content_hash = Blake3Hex(2),
                  !.storage_path = ContentKey("T1", "D2", Blake3Hex(2))],
    [NoRow EXCEPT !.present = TRUE, !.tenant_id = "T2", !.name = NameA,
                  !.department_id = NULL, !.owner_id = "xemp",
                  !.content_hash = Blake3Hex(1),
                  !.storage_path = ContentKey("T2", NULL, Blake3Hex(1))]>>

InitRead ==
  /\ files = ReadCatalog
  /\ nextId = Len(ReadCatalog) + 1
  /\ storage = {ReadCatalog[i].storage_path : i \in 2 .. Len(ReadCatalog)}
  /\ puts = Len(ReadCatalog) - 1
  /\ versioning = FALSE
  /\ req = [p \in Procs |-> IdleReq]
  /\ started = Len(ReadCatalog) - 1
  /\ shares = <<>>
  /\ served = NoResponse
  /\ temp_dir = [p \in Procs |-> 0]
  /\ permits = 0
  /\ file_groups = GroupCatalog
  /\ automation_jobs = JobCatalog
  /\ redis = {}
  /\ sched = [s \in Schedulers |-> IdleScheduler]
  /\ upload_count = [fr \in FileRequests |-> 0]

\* The users that lock and the users that share.
Lockers == {"mgr", "adm", "root"}
Sharers == {"alice", "bob"}

\* Locks and direct downloads.
NextRead ==
  \/ \E u \in Lockers, fid \in DOMAIN files, has_password \in BOOLEAN, r \in RequiredRoles :
       LockFile(u, "T1", fid, has_password, r)
  \/ \E u \in Lockers, fid \in DOMAIN files, pw \in {"none", "right", "wrong"} :
       UnlockFile(u, "T1", fid, pw)
  \/ \E u \in Users, t \in Tenants, fid \in DOMAIN files : DownloadFile(u, t, fid)
  \/ ResponseSent

SpecRead == InitRead /\ [][NextRead]_vars

\* Locks, share links and their redemption.
NextShare ==
  \/ \E u \in Lockers, fid \in DOMAIN files, has_password \in BOOLEAN, r \in RequiredRoles :
       LockFile(u, "T1", fid, has_password, r)
  \/ \E u \in Lockers, fid \in DOMAIN files, pw \in {"none", "right", "wrong"} :
       UnlockFile(u, "T1", fid, pw)
  \/ \E u \in Sharers, fid \in DOMAIN files, is_public \in BOOLEAN, expires \in BOOLEAN,
        pol \in SharePolicies, blocked \in BOOLEAN :
       CreateFileShare(u, "T1", fid, is_public, expires, pol, blocked)
  \/ \E token \in DOMAIN shares : ShareExpires(token)
  \/ \E token \in DOMAIN shares, bearer \in Bearers : DownloadSharedFile(token, bearer)
  \/ ResponseSent

SpecShare == InitRead /\ [][NextShare]_vars

\* Share links of alice and their redemption, with a database that may fail the
\* UPDATE of the download counter.
NextRedeem ==
  \/ \E fid \in {1, 2}, is_public \in BOOLEAN, expires \in BOOLEAN, pol \in SharePolicies :
       CreateFileShare("alice", "T1", fid, is_public, expires, pol, FALSE)
  \/ \E token \in DOMAIN shares : ShareExpires(token)
  \/ \E token \in DOMAIN shares, bearer \in {"absent", "alice", "bob", "xemp"},
        counted \in BOOLEAN :
       DownloadSharedFileDb(token, bearer, counted)
  \/ ResponseSent

SpecRedeem == InitRead /\ [][NextRedeem]_vars

\* Direct downloads of one worker, statement by statement.
NextTransfer ==
  \/ \E u \in Users, t \in Tenants, fid \in DOMAIN files, presigned \in BOOLEAN :
       DownloadAcquire("p1", u, t, fid, presigned)
  \/ DownloadRespond("p1")
  \/ ResponseSent

SpecTransfer == InitRead /\ [][NextTransfer]_vars

\* Lock and unlock requests of two workers on a.txt and b.txt, statement by
\* statement.
NextLock ==
  \/ \E p \in Procs, u \in {"mgr", "adm"}, fid \in {2},
        pw \in BOOLEAN, rr \in {NULL, "Manager", "Admin"} :
       LockStart(p, u, "T1", fid, pw, rr)
  \/ \E p \in Procs : LockUpdate(p)
  \/ \E p \in Procs, u \in {"mgr", "adm", "alice", "aud"}, fid \in {2},
        password \in {"none", "right"} :
       UnlockStart(p, u, "T1", fid, password)
  \/ \E p \in Procs : UnlockUpdate(p)
  \/ \E p \in Procs, u \in {"mgr"}, gid \in DOMAIN file_groups,
        pw \in BOOLEAN, rr \in {NULL, "Manager"} :
       LockGroupStart(p, u, "T1", gid, pw, rr)
  \/ \E p \in Procs : LockGroupUpdate(p)
  \/ \E p \in Procs, u \in {"adm", "alice", "aud"}, gid \in DOMAIN file_groups,
        password \in {"none", "right"} :
       UnlockGroupStart(p, u, "T1", gid, password)
  \/ \E p \in Procs : UnlockGroupUpdate(p)
  \/ \E p \in Procs : Return(p)

SpecLock == InitRead /\ [][NextLock]_vars

\* Folder and file downloads from a backend that may fail to return an object,
\* next to soft deletes and restores.
NextPack ==
  \/ \E u \in {"alice", "bob", "mgr", "adm"}, fid \in DOMAIN files, failing \in SUBSET storage :
       DownloadFileFrom(u, "T1", fid, storage \ failing)
  \/ ResponseSent
  \/ \E u \in {"alice", "bob"}, fid \in DOMAIN files : DeleteFile(u, "T1", fid)
  \/ \E u \in {"alice", "bob"}, fid \in DOMAIN files : RestoreFile(u, "T1", fid)

SpecPack == InitRead /\ [][NextPack]_vars

\* ------------------------------------------------------ automation scheduler
\* SETEX key seconds value: the key is set whether or not it exists, and the
\* reply is OK.
set_ex(r, key) == [redis |-> r \cup {key}, reply |-> "OK"]

\* acquire_lock: Ok(result.is_some()) of the reply to set_ex.
acquire_lock(r, job_id) ==
  LET result == set_ex(r, job_id)
  IN [redis |-> result.redis, acquired |-> result.reply # NULL]

\* LIMIT 10 of the SELECT of poll_and_execute.
PollLimit == 10

\* WHERE enabled = true AND next_run_at <= $1 ORDER BY next_run_at ASC LIMIT n
DueJobs(jobs, n) ==
  LET due == {j \in DOMAIN jobs : jobs[j].due}
      ordered == [k \in 1 .. Cardinality(due) |->
                    CHOOSE j \in due : jobs[j].next_run_at = k]
  IN SubSeq(ordered, 1, IF Len(ordered) < n THEN Len(ordered) ELSE n)

\* The SELECT of poll_and_execute with LIMIT `limit`.
PollDueLimit(s, limit) ==
  /\ sched[s].pc = "idle"
  /\ sched' = [sched EXCEPT ![s] =
       [IdleScheduler EXCEPT !.pc = "loop", !.due_jobs = DueJobs(automation_jobs, limit)]]
  /\ UNCHANGED <<files, nextId, storage, puts, versioning, req, started, shares, served, temp_dir, permits, file_groups, automation_jobs, redis, upload_count>>

\* The SELECT of poll_and_execute: the due jobs, in order.
PollDue(s) == PollDueLimit(s, PollLimit)

\* The head of the loop over due_jobs: acquire_lock for the next job, `continue`
\* when it returns false, leave poll_and_execute on a Redis error or at the end
\* of the list.
AcquireLock(s) ==
  /\ sched[s].pc = "loop"
  /\ IF sched[s].due_jobs = <<>>
     THEN /\ sched' = [sched EXCEPT ![s] = IdleScheduler]
          /\ UNCHANGED redis
     ELSE LET job == Head(sched[s].due_jobs)
              got == acquire_lock(redis, job)
          IN \/ /\ redis' = got.redis
                /\ sched' = [sched EXCEPT ![s] =
                     IF got.acquired
                     THEN [@ EXCEPT !.pc = "execute_job", !.job = job,
                                    !.due_jobs = Tail(@), !.lapsed = FALSE]
                     ELSE [@ EXCEPT !.due_jobs = Tail(@)]]
             \/ /\ sched' = [sched EXCEPT ![s] = IdleScheduler]
                /\ UNCHANGED redis
  /\ UNCHANGED <<files, nextId, storage, puts, versioning, req, started, shares, served, temp_dir, permits, file_groups, automation_jobs, upload_count>>

\* execute_job up to dispatch_webhook: the job's webhook is being delivered.
ExecuteJob(s) ==
  /\ sched[s].pc = "execute_job"
  /\ sched' = [sched EXCEPT ![s].pc = "dispatch_webhook"]
  /\ UNCHANGED <<files, nextId, storage, puts, versioning, req, started, shares, served, temp_dir, permits, file_groups, automation_jobs, redis, upload_count>>

\* update_job_status("success") and schedule_next_run: the job's next_run_at
\* is a time to come, and the due jobs after it move up one place.
Rescheduled(jobs, job) ==
  [j \in DOMAIN jobs |->
     IF j = job
     THEN [due |-> FALSE, last_status |-> "success", next_run_at |-> 0]
     ELSE IF jobs[job].due /\ jobs[j].next_run_at > jobs[job].next_run_at
          THEN [jobs[j] EXCEPT !.next_run_at = @ - 1]
          ELSE jobs[j]]

\* The end of execute_job: update_job_status("success") and schedule_next_run,
\* or update_job_status("failed"), which leaves next_run_at as it was.
ExecuteDone(s) ==
  /\ sched[s].pc = "dispatch_webhook"
  /\ \/ automation_jobs' = Rescheduled(automation_jobs, sched[s].job)
     \/ automation_jobs' = [automation_jobs EXCEPT ![sched[s].job].last_status = "failed"]
  /\ sched' = [sched EXCEPT ![s].pc = "release_lock"]
  /\ UNCHANGED <<files, nextId, storage, puts, versioning, req, started, shares, served, temp_dir, permits, file_groups, redis, upload_count>>

\* release_lock: DEL of the job's key; its error is dropped by the caller.
ReleaseLock(s) ==
  /\ sched[s].pc = "release_lock"
  /\ \/ redis' = redis \ {sched[s].job}
     \/ UNCHANGED redis
  /\ sched' = [sched EXCEPT ![s] = [@ EXCEPT !.pc = "loop", !.job = NoId, !.lapsed = FALSE]]
  /\ UNCHANGED <<files, nextId, storage, puts, versioning, req, started, shares, served, temp_dir, permits, file_groups, automation_jobs, upload_count>>

\* LOCK_TTL_SECONDS pass: Redis drops the key; the instances that set it are
\* past their lock's lifetime.
LockExpires(j) ==
  /\ j \in redis
  /\ redis' = redis \ {j}
  /\ sched' = [s \in Schedulers |->
                 IF sched[s].job = j THEN [sched[s] EXCEPT !.lapsed = TRUE] ELSE sched[s]]
  /\ UNCHANGED <<files, nextId, storage, puts, versioning, req, started, shares, served, temp_dir, permits, file_groups, automation_jobs, upload_count>>

\* The clock reaches a job's next_run_at: the job is the last of the due jobs.
JobDue(j) ==
  /\ ~automation_jobs[j].due
  /\ automation_jobs' =
       [automation_jobs EXCEPT ![j].due = TRUE,
                               ![j].next_run_at =
                                  1 + Cardinality({k \in Jobs : automation_jobs[k].due})]
  /\ UNCHANGED <<files, nextId, storage, puts, versioning, req, started, shares, served, temp_dir, permits, file_groups, redis, sched, upload_count>>

NextScheduler ==
  \/ \E s \in Schedulers : PollDue(s)
  \/ \E s \in Schedulers : AcquireLock(s)
  \/ \E s \in Schedulers : ExecuteJob(s)
  \/ \E s \in Schedulers : ExecuteDone(s)
  \/ \E s \in Schedulers : ReleaseLock(s)
  \/ \E j \in Jobs : LockExpires(j)
  \/ \E j \in Jobs : JobDue(j)

SpecScheduler == Init /\ [][NextScheduler]_vars

\* The recycle bin: soft deletes, then restores and permanent deletes by
\* employees of the tenant.
NextBin ==
  \/ \E u \in {"alice", "bob"}, fid \in {1, 2, 3} : Quiet /\ DeleteFile(u, "T1", fid)
  \/ \E p \in Procs, u \in {"alice", "bob"}, fid \in {1, 2, 3} : RestoreRequest(p, u, "T1", fid)
  \/ \E p \in Procs, u \in {"alice", "bob"}, fid \in {1, 2, 3} :
       PermanentDeleteStart(p, u, "T1", fid)
  \/ \E p \in Procs : PermanentDeleteCount(p)
  \/ \E p \in Procs : PermanentDeleteRow(p)
  \/ \E p \in Procs : PermanentDeleteStorage(p)
  \/ \E p \in Procs : Return(p)

SpecBin == InitRead /\ [][NextBin]_vars

\* Soft deletes next to lock requests, by statement, on the catalog of the
\* reads.
NextTrash ==
  \/ \E p \in Procs, u \in {"alice", "bob", "adm"}, fid \in {1, 2, 3} :
       DeleteStart(p, u, "T1", fid)
  \/ \E p \in Procs : DeleteRowStep(p)
  \/ \E p \in Procs : DeleteDirectStep(p)
  \/ \E p \in Procs : DeleteNestedStep(p)
  \/ \E p \in Procs, pw \in BOOLEAN : LockStart(p, "mgr", "T1", 2, pw, NULL)
  \/ \E p \in Procs : LockUpdate(p)
  \/ \E p \in Procs : Return(p)

SpecTrash == InitRead /\ [][NextTrash]_vars

\* --------------------------------------------------- the folder specification
\* A catalog create_folder and upload_file build: alice's folder D with the
\* subfolder S, a.txt in D, b.txt in D/S, and the empty folder T next to D.
FolderD == <<"D">>
FolderS == <<"S">>
FolderT == <<"T">>
FolderE == <<"E">>

DirCatalog ==
  <<[NoRow EXCEPT !.present = TRUE, !.tenant_id = "T1", !.name = FolderD,
                  !.department_id = "D1", !.owner_id = "alice", !.is_directory = TRUE],
    [NoRow EXCEPT !.present = TRUE, !.tenant_id = "T1", !.name = FolderS,
                  !.parent_path = <<FolderD>>,
                  !.department_id = "D1", !.owner_id = "alice", !.is_directory = TRUE],
    [NoRow EXCEPT !.present = TRUE, !.tenant_id = "T1", !.name = NameA,
                  !.parent_path = <<FolderD>>, !.department_id = "D1", !.owner_id = "alice",
                  !.content_hash = Blake3Hex(1),
                  !.storage_path = ContentKey("T1", "D1", Blake3Hex(1))],
    [NoRow EXCEPT !.present = TRUE, !.tenant_id = "T1", !.name = NameB,
                  !.parent_path = <<FolderD, FolderS>>, !.department_id = "D1",
                  !.owner_id = "alice", !.content_hash = Blake3Hex(2),
                  !.storage_path = ContentKey("T1", "D1", Blake3Hex(2))],
    [NoRow EXCEPT !.present = TRUE, !.tenant_id = "T1", !.name = FolderT,
                  !.department_id = "D1", !.owner_id = "alice", !.is_directory = TRUE]>>

InitDir ==
  /\ files = DirCatalog
  /\ nextId = Len(DirCatalog) + 1
  /\ storage = {DirCatalog[3].storage_path, DirCatalog[4].storage_path}
  /\ puts = 2
  /\ versioning = FALSE
  /\ req = [p \in Procs |-> IdleReq]
  /\ started = 0
  /\ shares = <<>>
  /\ served = NoResponse
  /\ temp_dir = [p \in Procs |-> 0]
  /\ permits = 0
  /\ file_groups = GroupCatalog
  /\ automation_jobs = JobCatalog
  /\ redis = {}
  /\ sched = [s \in Schedulers |-> IdleScheduler]
  /\ upload_count = [fr \in FileRequests |-> 0]

\* Folder requests of alice, one request at a time, statement by statement.
NextDir ==
  \/ \E fid \in DOMAIN files : Quiet /\ DeleteFile("alice", "T1", fid)
  \/ \E fid \in DOMAIN files : Quiet /\ RestoreFile("alice", "T1", fid)
  \/ \E fid \in DOMAIN files, n \in {FolderE, NameB} :
       Quiet /\ started < MaxFolderRequests /\ RenameStart("p1", "alice", "T1", fid, n)
  \/ RenameRowStep("p1")
  \/ RenameDirectStep("p1")
  \/ RenameNestedStep("p1")
  \/ \E fid \in DOMAIN files, t \in {NoId, 5}, v \in {"keep", "private"} :
       Quiet /\ started < MaxFolderRequests /\ MoveStart("p1", "alice", "T1", fid, t, "keep", v)
  \/ MoveRowStep("p1")
  \/ MoveDirectStep("p1")
  \/ MoveNestedStep("p1")
  \/ Return("p1")

SpecDir == InitDir /\ [][NextDir]_vars

\* ------------------------------------------------------------ properties
\* Live non-directory rows of scope (tenant, department) with the content hash.
LiveInScope(f, tenant_id, department_id, hash) ==
  {i \in LiveRows(f) : /\ f[i].tenant_id = tenant_id
                       /\ f[i].department_id = department_id
                       /\ f[i].content_hash = hash
                       /\ ~f[i].is_directory}

\* C1: permanent-delete removes a backend object only when no live record of the
\* deleted record's (tenant, department) scope references the same content hash,
\* whatever uploads of that content run at the same time.
C1_DeleteOnlyLastReference ==
  [][\A p \in Procs :
       (req[p].pc = "delete_storage" /\ storage' # storage)
         => LET item == Head(req[p].todo)
            IN LiveInScope(files', req[p].tenant, item.scope_dept, item.fhash) = {}]_vars

\* C2: when an upload returns success, its catalog row exists and an object
\* exists in the backend at the row's storage key.
C2_UploadSuccessHasRowAndObject ==
  [][\A p \in Procs :
       (req[p].pc = "insert" /\ req'[p].status = "OK")
         => /\ files'[req'[p].file_id].present
            /\ files'[req'[p].file_id].storage_path \in storage']_vars

\* C4: no two live non-directory records of one (tenant, department, parent-path,
\* visibility) scope have the same display name (stated for tenants without
\* mandatory versioning, where a new version keeps the name on purpose).
C4_LiveNamesUnique ==
  \A i, j \in LiveRows(files) :
    (/\ ~versioning
     /\ i # j
     /\ ~files[i].is_directory /\ ~files[j].is_directory
     /\ files[i].tenant_id = files[j].tenant_id
     /\ files[i].department_id = files[j].department_id
     /\ files[i].parent_path = files[j].parent_path
     /\ files[i].visibility = files[j].visibility)
      => files[i].name # files[j].name

\* C5: two uploads of the same bytes in the same scope, in flight together and
\* both successful, make exactly one backend put and two live rows, one of them
\* (the second) a dedup hit.
C5_ConcurrentUploadsOnePut ==
  (/\ \A p \in Procs : req[p].op = "upload" /\ req[p].pc = "done" /\ req[p].status = "OK"
   /\ started = 2
   /\ req["p1"].content = req["p2"].content
   /\ UserTable[req["p1"].user].department_id = UserTable[req["p2"].user].department_id)
    => /\ puts = 1
       /\ Cardinality(LiveRows(files)) = 2
       /\ req["p1"].dedup_hit # req["p2"].dedup_hit

\* C6: when permanent-delete of R completes without a failed backend call and no
\* live record of R's scope shares R's content hash, the object at R's storage key
\* is gone.
C6_ObjectGoneAfterLastDelete ==
  [][\A p \in Procs :
       (/\ req[p].op = "permanent_delete"
        /\ req[p].pc \in {"delete_row", "delete_storage"}
        /\ req'[p].pc = "done"
        /\ ~(req[p].pc = "delete_storage" /\ storage' = storage))
         => LET item == Head(req[p].todo)
            IN (/\ item.fhash # NoKey
                /\ LiveInScope(files', req[p].tenant, item.scope_dept, item.fhash) = {})
                 => item.fstorage \notin storage']_vars

\* C7: the dedup decision looks at the backend: when the object already exists at
\* the content key, the upload goes on without a backend put.
C7_DedupChecksBackend ==
  [][\A p \in Procs :
       (req[p].pc = "probe_content" /\ req'[p].pc = "put")
         => req'[p].key \notin storage]_vars

\* C3: on the download path (single file and directory pack) an actor whose
\* tenant differs from the tenant of a delivered record gets no content unless
\* the actor is a super-admin.
C3_CrossTenantReadDenied ==
  (served.via = "download" /\ served.status = "OK") =>
    \A i \in served.rows \cup {served.target} :
      \/ UserTable[served.user].tenant_id = files[i].tenant_id
      \/ UserTable[served.user].role = "SuperAdmin"

\* C8: an Admin or SuperAdmin who is neither the locker nor the owner is denied
\* the download of a record of the own tenant that is locked with a required
\* role above the actor's rank.
C8_AdminBypassStopsAtLock ==
  [][\A u \in Users :
       (/\ served = NoResponse
        /\ served'.via = "download"
        /\ served'.user = u
        /\ UserTable[u].role \in {"Admin", "SuperAdmin"}
        /\ LET row == files[served'.target]
           IN /\ row.present
              /\ row.tenant_id = UserTable[u].tenant_id
              /\ row.is_locked
              /\ row.lock_requires_role # NULL
              /\ role_level(UserTable[u].role) < role_level(row.lock_requires_role)
              /\ row.locked_by # u
              /\ row.owner_id # u)
       => served'.status # "OK"]_vars

\* C9: for a record locked with a required role, an actor the other rules admit
\* (same tenant, department visibility, member of the department, no admin
\* bypass) passes the lock gate iff the actor is the locker, or the owner, or
\* the actor's role rank is at least the rank of the required role.
C9_LockGateByRank ==
  [][\A u \in Users :
       (/\ served = NoResponse
        /\ served'.via = "download"
        /\ served'.user = u
        /\ served'.status \in {"OK", "FORBIDDEN"}
        /\ UserTable[u].role \notin {"Admin", "SuperAdmin"}
        /\ LET row == files[served'.target]
           IN /\ row.present
              /\ ~row.is_deleted
              /\ row.tenant_id = UserTable[u].tenant_id
              /\ row.visibility = "department"
              /\ \/ row.department_id = UserTable[u].department_id
                 \/ row.department_id \in UserTable[u].allowed
              /\ row.is_locked
              /\ row.lock_requires_role # NULL)
       => LET row == files[served'.target]
          IN served'.status = "OK" <=>
               \/ row.locked_by = u
               \/ row.owner_id = u
               \/ role_level(UserTable[u].role) >= role_level(row.lock_requires_role)]_vars

\* C10: the redemption of a non-public permissioned share delivers content only
\* to a bearer with valid credentials of the share's tenant, and only of
\* records the bearer may read directly.
C10_PermissionedShareNoBypass ==
  [][(/\ served = NoResponse
      /\ served'.via = "share"
      /\ served'.status = "OK"
      /\ ~shares[served'.token].is_public
      /\ shares[served'.token].share_policy = "permissioned")
     => LET bearer == served'.user
        IN /\ bearer \in Users
           /\ UserTable[bearer].tenant_id = shares[served'.token].tenant_id
           /\ \A i \in served'.rows :
                can_access_file(files, i, files[i].tenant_id, bearer,
                                UserTable[bearer].role, "read") = "true"]_vars


\* C11: for an actor who is neither Admin nor SuperAdmin, the download of a
\* private record is answered with its content iff the actor is the owner,
\* whatever the lock on it; and only the owner among such actors locks it.
C11_PrivateOwnerOnly ==
  [][/\ \A u \in Users :
          (/\ served = NoResponse
           /\ served'.via = "download"
           /\ served'.user = u
           /\ served'.status \in {"OK", "FORBIDDEN"}
           /\ UserTable[u].role \notin {"Admin", "SuperAdmin"}
           /\ files[served'.target].present
           /\ ~files[served'.target].is_deleted
           /\ files[served'.target].visibility = "private")
          => (served'.status = "OK" <=> files[served'.target].owner_id = u)
     /\ \A i \in DOMAIN files :
          (/\ files[i].visibility = "private"
           /\ ~files[i].is_locked
           /\ files'[i].is_locked
           /\ UserTable[files'[i].locked_by].role \notin {"Admin", "SuperAdmin"})
          => files'[i].locked_by = files[i].owner_id]_vars

\* The owner of a private record downloads it while another user's lock is on it.
C11_Witness ==
  /\ served.via = "download"
  /\ served.status = "OK"
  /\ served.user = "bob"
  /\ files[served.target].visibility = "private"
  /\ files[served.target].is_locked
  /\ files[served.target].locked_by # "bob"

\* C12: while a record's is_immutable flag is set, no request changes any
\* stored field of the record (its removal by permanent delete aside).
C12_ImmutableNeverModified ==
  [][\A i \in DOMAIN files :
       (files[i].present /\ files[i].is_immutable /\ files'[i].present)
       => files'[i] = files[i]]_vars

\* C13: when a rename or move of a directory completes, every record that was
\* under the directory's old path when the request started has a parent_path
\* under the directory's new path.
C13_DescendantsFollow ==
  [][\A p \in Procs :
       (/\ req[p].op \in {"rename", "move"}
        /\ req[p].is_directory
        /\ req[p].pc # "done"
        /\ req'[p].pc = "done"
        /\ req'[p].status = "OK")
       => \A i \in req[p].descendants :
            files'[i].present => IsUnder(files'[i].parent_path, req[p].new_path)]_vars

\* C14: a rename or move of a directory is atomic in the catalog: in every
\* state a reader can see while the request runs, and in the state a failed
\* request leaves, the directory and its descendants are either all on the
\* paths they had before the request or all on the paths they have after it.
C14_DirectoryChangeAtomic ==
  \A p \in Procs :
    (/\ req[p].op \in {"rename", "move"}
     /\ req[p].is_directory
     /\ req[p].pc # "idle")
    => \/ /\ FolderPath(files[req[p].file_id]) = req[p].old_path
          /\ \A i \in req[p].descendants : IsUnder(files[i].parent_path, req[p].old_path)
       \/ /\ FolderPath(files[req[p].file_id]) = req[p].new_path
          /\ \A i \in req[p].descendants : IsUnder(files[i].parent_path, req[p].new_path)

\* C15: for every record R that is not in the trash, delete_file on R followed
\* by restore_file on R leaves every column of R as it was (the model has no
\* timestamps).
C15_DeleteRestoreIdentity ==
  \A fid \in LiveRows(files) :
    Restored(SoftDeleted(files, files[fid].tenant_id, fid), files[fid].tenant_id, fid)[fid]
      = files[fid]

\* A folder that was renamed or moved, with a record of its own in the trash
\* below it: the round trip on the folder changes that record, not the folder.
C15_Witness ==
  \E fid \in LiveRows(files) :
    /\ files[fid].is_directory
    /\ FolderPath(files[fid]) # FolderPath(DirCatalog[fid])
    /\ \E i \in Rows(files) :
         /\ files[i].is_deleted
         /\ IsUnder(files[i].parent_path, FolderPath(files[fid]))
    /\ SoftDeleted(files, "T1", fid)[fid].is_deleted
    /\ Restored(SoftDeleted(files, "T1", fid), "T1", fid) # files
    /\ Restored(SoftDeleted(files, "T1", fid), "T1", fid)[fid] = files[fid]

\* C16: whenever an upload request has ended, whatever its outcome, no
\* scratch file of that request is left in the temp directory.
C16_ScratchRemovedOnEveryExit ==
  \A p \in Procs : req[p].pc \in {"idle", "done"} => temp_dir[p] = 0

\* C17: while the body streams, a further chunk is read and written only while
\* the running size is within the tenant's max upload size and within the
\* quota left: once either limit is exceeded no more of the body is taken.
C17_LimitsCheckedPerChunk ==
  [][\A p \in Procs :
       (/\ req[p].pc = "chunk"
        /\ req'[p].size > req[p].size)
       => /\ req[p].size <= max_upload_size_bytes
          /\ CurrentStorage(files, req[p].tenant) + req[p].size <= storage_quota_bytes]_vars

\* C18: on the proxied download path the permit acquired for the transfer is
\* still held when the response is handed over with its body yet to stream:
\* the step that starts an OK response of a file does not release a permit.
C18_PermitHeldWhileStreaming ==
  [][(/\ served = NoResponse
      /\ served'.via = "download"
      /\ served'.status = "OK"
      /\ ~files[served'.target].is_directory)
     => permits' >= permits]_vars


\* C19: with versioning required, an upload that succeeds while a live record
\* of the same name is in the same scope writes its row with the version of
\* that record plus 1 and with that record as version parent, and leaves that
\* record immutable.
C19_VersionedUpload ==
  [][\A p \in Procs :
       (/\ versioning
        /\ req[p].op = "upload"
        /\ req[p].pc = "insert"
        /\ req'[p].status = "OK"
        /\ ExistingFileMatches(files, req[p]) # {})
       => \E e \in ExistingFileMatches(files, req[p]) :
            /\ files'[req'[p].file_id].version = files[e].version + 1
            /\ files'[req'[p].file_id].version_parent_id = e
            /\ files'[e].is_immutable]_vars

\* C20: every object in the backend, all of them written by an ingest path,
\* has a key of the form {tenant}/{department or "private"}/{the first two
\* characters of the hash}/{the hash}.
C20_ContentKeyLayout ==
  \A key \in storage :
    /\ Len(key) = 4
    /\ key[1] \in Tenants
    /\ key[2] \in Departments \cup {"private"}
    /\ key[4] \in {Blake3Hex(c) : c \in Contents}
    /\ key[3] = SubSeq(key[4], 1, 2)

\* C21: a step of a lock or unlock request that does not switch a record
\* between locked and unlocked leaves the record as it was: a lock request on
\* a locked record keeps locker, password and required role, and an unlock
\* request on an unlocked record changes nothing.
C21_LockReentryIdempotent ==
  [][\A i \in DOMAIN files :
       (files[i].present /\ files'[i].present /\ files[i].is_locked = files'[i].is_locked)
       => files'[i] = files[i]]_vars


\* C22: in every reachable state, a file record or a group record that is not
\* locked has no locker, no lock timestamp, no password hash and no required
\* role.
LockColumnsAbsent(row) ==
  /\ row.locked_by = NULL
  /\ row.locked_at = NULL
  /\ ~row.lock_has_password
  /\ row.lock_requires_role = NULL

C22_UnlockedHasNoLockData ==
  /\ \A i \in Rows(files) : ~files[i].is_locked => LockColumnsAbsent(files[i])
  /\ \A g \in DOMAIN file_groups :
       ~file_groups[g].is_locked => LockColumnsAbsent(file_groups[g])

\* A file and a group have each been locked and then unlocked by a finished
\* unlock request.
C22_Witness ==
  /\ \E p \in Procs : /\ req[p].op = "unlock" /\ req[p].status = "OK"
                      /\ ~files[req[p].file_id].is_locked
  /\ \E p \in Procs : /\ req[p].op = "unlock_group" /\ req[p].status = "OK"
                      /\ ~file_groups[req[p].file_id].is_locked

\* C23: the UPDATE of an unlock request never unlocks a locked record that
\* names a required role for an actor who is neither the record's owner nor
\* its locker and whose role ranks below that role, whatever password the
\* request carried; for file records and for group records.
UnlockedBelowRank(row, owner, u) ==
  /\ row.is_locked
  /\ row.lock_requires_role # NULL
  /\ u # owner
  /\ u # row.locked_by
  /\ role_level(UserTable[u].role) < role_level(row.lock_requires_role)

C23_RoleGateOnUnlock ==
  [][\A p \in Procs :
       /\ (/\ req[p].pc = "unlock_update"
           /\ req'[p].status = "OK"
           /\ ~files'[req[p].file_id].is_locked)
          => ~UnlockedBelowRank(files[req[p].file_id], files[req[p].file_id].owner_id,
                                req[p].user)
       /\ (/\ req[p].pc = "unlock_group_update"
           /\ req'[p].status = "OK"
           /\ ~file_groups'[req[p].file_id].is_locked)
          => ~UnlockedBelowRank(file_groups[req[p].file_id],
                                file_groups[req[p].file_id].created_by, req[p].user)]_vars

\* C24: the UPDATE of a soft-delete request never moves its target record to
\* the trash while that record is locked, or while it is immutable and the
\* tenant requires versioning, whoever the actor is.
C24_DeleteRejectedWhenLockedOrImmutable ==
  [][\A p \in Procs :
       (/\ req[p].pc = "delete_row"
        /\ req[p].file_id \in Rows(files)
        /\ ~files[req[p].file_id].is_deleted
        /\ files'[req[p].file_id].is_deleted)
       => /\ ~files[req[p].file_id].is_locked
          /\ ~(files[req[p].file_id].is_immutable /\ versioning)]_vars

\* The live files under a folder: the rows a pack of the folder is to hold.
LiveFilesUnder(f, fid) ==
  {i \in LiveRows(f) : /\ f[i].tenant_id = f[fid].tenant_id
                       /\ ~f[i].is_directory
                       /\ IsUnder(f[i].parent_path, FolderPath(f[fid]))}

\* C25: a successful pack response for a directory holds an entry for every
\* live file under the directory.
C25_PackHoldsEveryLiveFile ==
  [][(/\ served = NoResponse
      /\ served'.via = "download"
      /\ served'.status = "OK"
      /\ files[served'.target].is_directory)
     => LiveFilesUnder(files, served'.target) \subseteq served'.rows]_vars

\* C29: every file in the pack an actor downloads is a file the access decision
\* lets that actor read: no private file of another user, no file of a
\* department the actor cannot access.
C29_PackHoldsOnlyReadableFiles ==
  [][(/\ served = NoResponse
      /\ served'.via = "download"
      /\ served'.status = "OK"
      /\ files[served'.target].is_directory)
     => \A i \in served'.rows :
          can_access_file(files, i, files[i].tenant_id, served'.user,
                          UserTable[served'.user].role, "read") = "true"]_vars

\* C26: a redemption that sends content has incremented the share's download
\* counter first, and no step decreases a download counter.
C26_CountedBeforeContent ==
  [][/\ (/\ served = NoResponse
         /\ served'.via = "share"
         /\ served'.status = "OK")
        => shares'[served'.token].download_count = shares[served'.token].download_count + 1
     /\ \A t \in DOMAIN shares :
          t \in DOMAIN shares' /\ shares'[t].download_count >= shares[t].download_count]_vars

\* C27: no statement of a rename or of a move, of a file or of a directory with
\* its descendants, puts or removes an object of the backend or changes the
\* storage_path of a record.
C27_RenameMoveKeepStorage ==
  [][(\E p \in Procs : req[p].op \in {"rename", "move"} /\ req[p].pc # "done")
     => /\ storage' = storage
        /\ puts' = puts
        /\ \A i \in DOMAIN files :
             i \in DOMAIN files' /\ files'[i].storage_path = files[i].storage_path]_vars

\* A directory with descendants has been renamed or moved, and a file has been
\* moved, by finished requests.
C27_Witness ==
  /\ req["p1"].op \in {"rename", "move"}
  /\ req["p1"].status = "OK"
  /\ req["p1"].pc = "done"
  /\ req["p1"].is_directory
  /\ req["p1"].descendants # {}
  /\ \E i \in Rows(files) : /\ ~files[i].is_directory
                            /\ files[i].parent_path # DirCatalog[i].parent_path
  /\ \E i \in Rows(files) : /\ ~files[i].is_directory
                            /\ files[i].visibility = "private"

\* An instance holds the lock of job j: acquire_lock returned true to it, it has
\* not released the lock, and the lock's TTL has not passed.
HoldsLock(s, j) ==
  /\ sched[s].job = j
  /\ sched[s].pc \in {"execute_job", "dispatch_webhook", "release_lock"}
  /\ ~sched[s].lapsed

\* C28: in every reachable state, at most one scheduler instance holds the lock
\* of a job, so no two instances execute the same due job at the same time.
C28_OneHolderPerJob ==
  \A j \in Jobs : \A s, t \in Schedulers : (HoldsLock(s, j) /\ HoldsLock(t, j)) => s = t

\* The access decision of delete_file on the record, taken as a live record:
\* an admin, the owner, or an actor can_access_file lets delete.
DeleteDenied(f, u, fid) ==
  LET live == [f EXCEPT ![fid].is_deleted = FALSE]
      role == UserTable[u].role
  IN /\ role \notin {"SuperAdmin", "Admin"}
     /\ f[fid].owner_id # u
     /\ can_access_file(live, fid, f[fid].tenant_id, u, role, "delete") # "true"

\* C30: no restore and no permanent delete of a trashed record is accepted from
\* an actor the access decision denies the delete of that record.
C30_TrashActionsNeedDeleteAccess ==
  [][\A p \in Procs :
       (/\ req[p].pc = "idle"
        /\ req'[p].op \in {"restore", "permanent_delete"})
       => ~DeleteDenied(files, req'[p].user, req'[p].file_id)]_vars

\* Row i is in the (department, visibility) scope of directory row d.
SameScope(f, d, i) ==
  /\ f[i].tenant_id = f[d].tenant_id
  /\ f[i].department_id = f[d].department_id
  /\ f[i].visibility = f[d].visibility

\* C31: a statement of a soft-delete, rename or move request for a directory
\* changes, besides the directory's own row, only rows of the directory's
\* (department, visibility) scope.
C31_DirectoryOpsStayInScope ==
  [][\A p \in Procs :
       (/\ req[p].op \in {"delete", "rename", "move"}
        /\ req[p].is_directory
        /\ req'[p] # req[p])
       => \A i \in Rows(files) :
            (i # req[p].file_id /\ files'[i] # files[i])
            => SameScope(files, req[p].file_id, i)]_vars

\* C32: no statement of a soft-delete request for a directory moves to the
\* trash a descendant that is locked, or that is immutable while the tenant
\* requires versioning.
C32_DirectoryDeleteSparesProtected ==
  [][\A p \in Procs :
       (/\ req[p].op = "delete"
        /\ req[p].is_directory
        /\ req'[p] # req[p])
       => \A i \in Rows(files) :
            (i # req[p].file_id /\ ~files[i].is_deleted /\ files'[i].is_deleted)
            => /\ ~files[i].is_locked
               /\ ~(files[i].is_immutable /\ versioning)]_vars

\* C33: a lock request reports success only for a record that is unlocked when
\* its UPDATE runs, so of two requests that both read the record as unlocked
\* at most one reports success and the stored lock is that request's; for file
\* records and for group records.
C33_OneLockRequestSucceeds ==
  [][\A p \in Procs :
       /\ (req[p].pc = "lock_update" /\ req'[p].status = "OK")
          => ~files[req[p].file_id].is_locked
       /\ (req[p].pc = "lock_group_update" /\ req'[p].status = "OK")
          => ~file_groups[req[p].file_id].is_locked]_vars

\* C34: a permanent delete whose reference-count query failed does not delete
\* the backend object: no step of the request removes a key from the storage
\* while the count of the current item is the default of a failed query.
C34_FailedCountKeepsObject ==
  [][\A p \in Procs :
       (req[p].pc = "delete_storage" /\ storage' # storage) => ~req[p].count_failed]_vars

\* C35: accepted uploads never take a tenant over its storage quota: the sum
\* of the sizes of the live non-directory records of tenant T1 is at most the
\* tenant's storage_quota_bytes, uploads through file-request links included.
C35_UsageWithinQuota ==
  CurrentStorage(files, "T1") <= storage_quota_bytes

\* C36: a failed upload leaves the existing records as they were: a record is
\* flagged immutable only if the record of its next version was written (or
\* the upload that flagged it is still before its INSERT).
C36_ImmutableOnlyWithNewVersion ==
  \A i \in Rows(files) :
    files[i].is_immutable
    => \/ \E j \in Rows(files) : files[j].version_parent_id = i
       \/ \E p \in Procs : req[p].pc = "insert" /\ req[p].version_parent_id = i

\* --------------------------------------------------- the restore specification
\* Soft deletes and folder restores of alice on the folder catalog, one handler
\* at a time; alice deletes what a listing shows her, a row in live folders.
\* A finished request stays in req until its response is returned.
Settled == \A p \in Procs : req[p].pc \in {"idle", "done"}

\* The row is listed: every folder above it is live.
InLiveFolder(f, fid) ==
  \A d \in Rows(f) :
    (f[d].is_directory /\ IsUnder(f[fid].parent_path, FolderPath(f[d]))) => ~f[d].is_deleted

NextRestore ==
  \/ \E p \in Procs, fid \in DOMAIN files :
       Settled /\ InLiveFolder(files, fid) /\ DeleteStart(p, "alice", "T1", fid)
  \/ \E p \in Procs : DeleteRowStep(p)
  \/ \E p \in Procs : DeleteDirectStep(p)
  \/ \E p \in Procs : DeleteNestedStep(p)
  \/ \E p \in Procs, fid \in {1, 2, 5} : Settled /\ RestoreRequest(p, "alice", "T1", fid)
  \/ \E p \in Procs : Return(p)

SpecRestore == InitDir /\ [][NextRestore]_vars

\* C37: restoring a folder leaves in the trash a descendant that was deleted
\* on its own: a file that request q soft-deleted by itself (q answered OK and
\* its response is still in flight) is still deleted after the restore of a
\* folder whose soft delete had put all its descendants in the trash.
C37_RestoreKeepsOwnDeletes ==
  [][\A p \in Procs, q \in Procs :
       (/\ req[p].pc = "idle"
        /\ req'[p].op = "restore"
        /\ \A i \in Rows(files) :
              IsUnder(files[i].parent_path, FolderPath(files[req'[p].file_id]))
              => files[i].is_deleted
        /\ req[q].op = "delete"
        /\ req[q].status = "OK"
        /\ ~req[q].is_directory
        /\ files[req[q].file_id].is_deleted)
       => files'[req[q].file_id].is_deleted]_vars

\* --------------------------------------------------- the nesting specification
\* Moves of alice on the folder catalog, one request at a time, into the root
\* or into any of the folders D, D/S and T.
NextNest ==
  \/ \E fid \in DOMAIN files, t \in {NoId, 1, 2, 5} :
       Quiet /\ started < MaxFolderRequests /\ MoveStart("p1", "alice", "T1", fid, t, "keep", "keep")
  \/ MoveRowStep("p1")
  \/ MoveDirectStep("p1")
  \/ MoveNestedStep("p1")
  \/ Return("p1")

SpecNest == InitDir /\ [][NextNest]_vars

\* The path is the root or the path of a live folder of the tenant other
\* than row fid.
IsFolderBeside(f, tenant_id, fid, path) ==
  \/ path = Root
  \/ \E d \in LiveRows(f) :
       /\ d # fid
       /\ f[d].tenant_id = tenant_id
       /\ f[d].is_directory
       /\ FolderPath(f[d]) = path

\* C38: a move never places a folder inside itself or one of its descendants:
\* when the move of a folder answers OK, the folder's parent path is the root
\* or the path of another live folder.
C38_MoveOutsideItself ==
  [][\A p \in Procs :
       (/\ req[p].op = "move"
        /\ req[p].is_directory
        /\ req[p].pc # "done"
        /\ req'[p].pc = "done"
        /\ req'[p].status = "OK")
       => IsFolderBeside(files', req[p].tenant, req[p].file_id,
                         files'[req[p].file_id].parent_path)]_vars

\* ----------------------------------------------- the file request specification
\* Uploads to the file requests of alice, two requests at a time, each with
\* one or two files.
MaxFields == 2

NextTally ==
  \/ \E p \in Procs, fr \in FileRequests, fields \in 1 .. MaxFields :
       PublicUploadBegin(p, fr, fields)
  \/ \E p \in Procs : PublicUploadField(p)
  \/ \E p \in Procs : PublicUploadCount(p)
  \/ \E p \in Procs : Return(p)

SpecTally == Init /\ [][NextTally]_vars

\* C39: the upload count of a file request with max_uploads set never
\* exceeds max_uploads.
C39_CountWithinMaxUploads ==
  \A fr \in FileRequests : upload_count[fr] <= max_uploads

\* ------------------------------------------------ the polling specification
\* The poll loops of the two instances with the LIMIT of the SELECT scaled to
\* the two jobs of the catalog: a poll returns one job where the program's
\* returns ten.
ScaledPollLimit == 1

NextPoll ==
  \/ \E s \in Schedulers : PollDueLimit(s, ScaledPollLimit)
  \/ \E s \in Schedulers : AcquireLock(s)
  \/ \E s \in Schedulers : ExecuteJob(s)
  \/ \E s \in Schedulers : ExecuteDone(s)
  \/ \E s \in Schedulers : ReleaseLock(s)
  \/ \E j \in Jobs : LockExpires(j)
  \/ \E j \in Jobs : JobDue(j)

\* start(): each instance polls again ten seconds after a poll and takes each
\* step of poll_and_execute; Redis does not fail the acquire_lock of one job
\* for ever.
FairPoll ==
  \A s \in Schedulers :
    /\ WF_vars(PollDueLimit(s, ScaledPollLimit))
    /\ WF_vars(AcquireLock(s))
    /\ WF_vars(ExecuteJob(s))
    /\ WF_vars(ExecuteDone(s))
    /\ WF_vars(ReleaseLock(s))
    /\ \A j \in Jobs : SF_vars(AcquireLock(s) /\ sched'[s].job = j)

SpecPoll == Init /\ [][NextPoll]_vars /\ FairPoll

\* An instance is inside execute_job for the job, or between it and release_lock.
Attempting(j) == \E s \in Schedulers : sched[s].job = j

\* C40: every due job is eventually attempted by the poll loop (or is no longer
\* due, which only a successful attempt brings about), whatever the other due
\* jobs do.
C40_DueJobEventuallyAttempted ==
  \A j \in Jobs :
    automation_jobs[j].due ~> (Attempting(j) \/ ~automation_jobs[j].due)
====
